---- MODULE Spec2Model ----
(***************************************************************************)
(* Auction room state machine of the IPL auction server (src/server.js).   *)
(* One socket.io server process; every handler runs to completion before   *)
(* the next one starts (single-threaded event loop).  The state is the     *)
(* rooms registry, the room membership of every connection, the pending    *)
(* event-loop callbacks (countdown intervals, cooldown timeouts) and, as   *)
(* observation variables, what the last handler emitted.                   *)
(***************************************************************************)
EXTENDS Integers, Sequences, FiniteSets, TLC

VARIABLES rooms,        \* the global registry `rooms`: the room object of every room id created
          socketRooms,  \* socket.rooms without the socket's own id, in join order
          out,          \* notifications emitted by the last handler or callback
          budget0,      \* observation: every team's budget as set by the last start_auction
          nFinal,       \* observation: sale_finalized broadcasts per lot name since the last start_auction
          squadOpen,    \* observation: open_squad_selection was emitted since the last start_auction
          sinceBid,     \* observation: unpaused ticks since the last accepted bid, -1 when the
                        \* lot that is open has no accepted bid
          last,         \* observation: the event or callback that ran last and the connection
                        \* that sent it; only the specifications that trace events write it
          sim           \* the simulation engine: the locals of the tournament, match or
                        \* innings that is being computed, step by step

vars == <<rooms, socketRooms, out, budget0, nFinal, squadOpen, sinceBid, last, sim>>

obs == <<budget0, nFinal, squadOpen, sinceBid>>

----------------------------------------------------------------------------
(* Bounds of the model *)

MaxLots == 2        \* longest lot queue a start_auction carries
MaxAmount == 1      \* bid amounts range over 0..MaxAmount
MaxBelowZero == 1   \* bids of any integer go down to -MaxBelowZero
MaxIndex == 2       \* cap on auctionIndex (the code increments it without bound)
MaxStarts == 1      \* start_auction events accepted per room
MaxCooldowns == 2   \* cap on simultaneously pending cooldown callbacks
MaxHandles == 2     \* interval handles the model distinguishes
MaxScore == 6       \* highest score of an innings the model follows ball by ball
MaxRuns == 2        \* highest score of an innings of a tournament match
MaxTeams == 4       \* most teams of a tournament

(* Program constants *)

AUCTION_TIMER_SECONDS == 10
LINEUP_SIZE == 11             \* players of a lineup the simulation fills up to

(* Inputs *)

NULL == "null"
NoStatus == "none"            \* lot.status is undefined
NoPlayer == [name |-> NULL, basePrice |-> 0, status |-> NoStatus, soldPrice |-> 0]  \* currentPlayer is null
RoomIds == {"r1"}
Sockets == {"s1", "s2"}
Passwords == {"pw", "bad"}
TeamKeys == {"A", "B"}
LotNames == <<"L1", "L2", "L3">>
StartBudget == 1
BasePrice == 1

\* Every connection there is: s3 is connected and has joined no room yet
Connections == Sockets \cup {"s3"}

\* io.use middleware: the durable identity carried by each connection.
\* s0 is an earlier connection of the person now connected as s2, and s3 is a
\* second connection of the person connected as s1.
playerId(s) == IF s \in {"s1", "s3"} THEN "p1" ELSE "p2"

Amounts == 0..MaxAmount

\* The amounts a client can put into a bid: any integer, below zero as well
AnyAmounts == (0 - MaxBelowZero)..MaxAmount

\* A lot as a client sends it in the queue of start_auction.
Lot(i, st) == [name |-> LotNames[i], basePrice |-> BasePrice, status |-> st, soldPrice |-> 0]

\* Queues the admin's client can send: every length up to MaxLots, each lot
\* fresh or carrying a terminal status from an earlier session.
QueueInputs ==
  UNION { { [i \in 1..n |-> Lot(i, IF i \in done THEN "SOLD" ELSE NoStatus)] : done \in SUBSET (1..n) }
          : n \in 0..MaxLots }

\* A team as a client sends it in the team list of start_auction.
TeamInput(k, sock) ==
  [bidKey |-> k, name |-> k, budget |-> StartBudget, roster |-> <<>>,
   totalSpent |-> 0, totalPlayers |-> 0, isTaken |-> TRUE,
   ownerSocketId |-> sock, ownerPlayerId |-> playerId(sock)]

\* Team B is still bound to its owner's earlier connection.
TeamInputs == { <<TeamInput("A", "s1"), TeamInput("B", "s0")>> }

\* Team lists a member's client can send with update_lobby_teams
LobbyInputs == { <<>> }

\* A team nobody has claimed, as the lobby client lists it
FreeTeam(k) ==
  [bidKey |-> k, name |-> k, budget |-> StartBudget, roster |-> <<>>,
   totalSpent |-> 0, totalPlayers |-> 0, isTaken |-> FALSE,
   ownerSocketId |-> NULL, ownerPlayerId |-> NULL]

\* The team list the admin's lobby client publishes before anybody has claimed a team
FreeTeams == <<FreeTeam("A"), FreeTeam("B")>>

\* Team lists the client of connection s publishes in the lobby: nobody has
\* claimed a team, or the list shows team A as taken by s
LobbyLists(s) == {FreeTeams, <<TeamInput("A", s), FreeTeam("B")>>}

\* Durable identities a request can name
PlayerIds == {"p1", "p2"}

\* Names the admin gives a team
NewNames == {"X"}

----------------------------------------------------------------------------
(* Helpers *)

Msg(to, ev, arg) == [to |-> to, ev |-> ev, arg |-> arg]

\* io.to(x).emit / socket.emit inside a handler working on context c = [r, out]
Emit(c, to, ev, arg) == [c EXCEPT !.out = Append(@, Msg(to, ev, arg))]

\* Array.prototype.find on the team list: index of the first team with the key, 0 if none
FindTeam(teams, key) ==
  IF \E i \in 1..Len(teams) : teams[i].bidKey = key
    THEN CHOOSE i \in 1..Len(teams) :
           /\ teams[i].bidKey = key
           /\ \A j \in 1..(i - 1) : teams[j].bidKey # key
    ELSE 0

getRoomId(s) == IF socketRooms[s] = <<>> THEN NULL ELSE Head(socketRooms[s])

\* Mutant of isAdmin: every connection that is in a room passes
isAdmin_AnyMember(s) == getRoomId(s) \in DOMAIN rooms

isAdmin(s) ==
  LET roomId == getRoomId(s) IN
    /\ roomId \in DOMAIN rooms
    /\ rooms[roomId].adminSocketId = s

\* The room object built by create_room
NewRoom(s, password) ==
  [password |-> password,
   users |-> <<s>>,
   teams |-> <<>>,
   auctionQueue |-> <<>>,
   auctionIndex |-> 0,
   currentBid |-> 0,
   currentBidder |-> NULL,
   currentPlayer |-> NoPlayer,
   cpRef |-> 0,              \* position in auctionQueue of the object currentPlayer refers to, 0 if none
   timer |-> AUCTION_TIMER_SECONDS,
   timerInterval |-> 0,      \* handle of the countdown interval, 0 for null
   timerPaused |-> TRUE,
   isActive |-> FALSE,
   adminSocketId |-> s,
   adminPlayerId |-> playerId(s),
   sellingInProgress |-> FALSE,
   squads |-> <<>>,          \* the submitted squads, a function from team keys
   intervals |-> {},         \* event loop: handles of the live setInterval callbacks of the room
   cooldowns |-> 0,          \* event loop: pending setTimeout(4000) callbacks of the room
   starts |-> 0]             \* number of start_auction events accepted (bounds the model)

----------------------------------------------------------------------------
(* Timer *)

\* A JavaScript expression is evaluated once, where it stands: With(e, F) is
\* F applied to the value of e
With(e, F(_)) == CHOOSE y \in {F(v) : v \in {e}} : TRUE

stopTimer(c) ==
  IF c.r.timerInterval # 0
    THEN [c EXCEPT !.r.intervals = @ \ {c.r.timerInterval}, !.r.timerInterval = 0]
    ELSE c

\* setInterval returns a handle that no live interval has
NewHandle(live) == CHOOSE h \in 1..(Cardinality(live) + 1) : h \notin live

\* Mutant of startTimer: the interval that is running is not cleared
startTimer_NoClear(c, roomId) ==
  LET c2 == [c EXCEPT !.r.timer = AUCTION_TIMER_SECONDS, !.r.timerPaused = FALSE]
      c3 == Emit(Emit(c2, roomId, "timer_tick", c2.r.timer), roomId, "timer_status", FALSE)
      h  == NewHandle(c3.r.intervals)
  IN [c3 EXCEPT !.r.intervals = @ \cup {h}, !.r.timerInterval = h]

\* Mutant of startTimer: the countdown goes on from the value it had
startTimer_NoReset(c, roomId) ==
  LET c1 == IF c.r.timerInterval # 0
              THEN [c EXCEPT !.r.intervals = @ \ {c.r.timerInterval}]
              ELSE c
      c2 == [c1 EXCEPT !.r.timerPaused = FALSE]
      c3 == Emit(Emit(c2, roomId, "timer_tick", c2.r.timer), roomId, "timer_status", FALSE)
      h  == NewHandle(c3.r.intervals)
  IN [c3 EXCEPT !.r.intervals = @ \cup {h}, !.r.timerInterval = h]

startTimer(c, roomId) ==
  With(c, LAMBDA c0 :
    LET c1 == IF c0.r.timerInterval # 0
                THEN [c0 EXCEPT !.r.intervals = @ \ {c0.r.timerInterval}]
                ELSE c0
        c2 == [c1 EXCEPT !.r.timer = AUCTION_TIMER_SECONDS, !.r.timerPaused = FALSE]
        c3 == Emit(Emit(c2, roomId, "timer_tick", c2.r.timer), roomId, "timer_status", FALSE)
    IN With(c3, LAMBDA c4 :
         LET h == NewHandle(c4.r.intervals)
         IN [c4 EXCEPT !.r.intervals = @ \cup {h}, !.r.timerInterval = h]))

----------------------------------------------------------------------------
(* Sale resolver *)

RosterEntry(lot, price) ==
  [name |-> lot.name, basePrice |-> lot.basePrice, soldPrice |-> lot.soldPrice,
   price |-> price, status |-> "SOLD"]

\* currentPlayer is a reference to an element of the queue: a write to it is
\* also a write to that element as long as the queue still holds the object.
SetLotResult(r, st, price) ==
  LET lot == [r.currentPlayer EXCEPT !.status = st, !.soldPrice = price] IN
    [r EXCEPT !.currentPlayer = lot,
              !.auctionQueue = IF r.cpRef # 0 THEN [@ EXCEPT ![r.cpRef] = lot] ELSE @]

\* Mutant of SellTo: the price is added to the spend but not taken from the budget
SellTo_NoDebit(r, i) ==
  [r EXCEPT !.teams[i].roster = Append(@, RosterEntry(r.currentPlayer, r.currentBid)),
            !.teams[i].totalSpent = @ + r.currentBid,
            !.teams[i].totalPlayers = @ + 1]

SellTo(r, i) ==
  [r EXCEPT !.teams[i].roster = Append(@, RosterEntry(r.currentPlayer, r.currentBid)),
            !.teams[i].totalSpent = @ + r.currentBid,
            !.teams[i].totalPlayers = @ + 1,
            !.teams[i].budget = @ - r.currentBid]

\* processSale past its guard, the finalization flag set and the timer stopped
processSaleBody(c1, roomId) ==
  LET ti == IF c1.r.currentBidder # NULL THEN FindTeam(c1.r.teams, c1.r.currentBidder) ELSE 0
      isUnsold == ti = 0
      soldPrice == IF isUnsold THEN 0 ELSE c1.r.currentBid
      r2 == IF isUnsold THEN c1.r ELSE SellTo(c1.r, ti)
  IN With(SetLotResult(r2, IF isUnsold THEN "UNSOLD" ELSE "SOLD", soldPrice), LAMBDA r3 :
       LET c4 == Emit([c1 EXCEPT !.r = r3], roomId, "sale_finalized",
                      [lot |-> r3.currentPlayer.name, isUnsold |-> isUnsold,
                       soldTeam |-> IF isUnsold THEN NULL ELSE r3.teams[ti].name,
                       price |-> soldPrice])
       IN [c4 EXCEPT !.r.auctionIndex = @ + 1, !.r.cooldowns = @ + 1])

processSale(c, roomId) ==
  With(c, LAMBDA c0 :
    IF c0.r.currentPlayer = NoPlayer \/ c0.r.sellingInProgress
      THEN c0
      ELSE With(Emit(stopTimer([c0 EXCEPT !.r.sellingInProgress = TRUE]), roomId, "timer_ended", NULL),
                LAMBDA c1 : processSaleBody(c1, roomId)))

RECURSIVE startNextLot(_, _)
startNextLot(c, roomId) ==
  With(c, LAMBDA c0 :
    IF c0.r.auctionIndex >= Len(c0.r.auctionQueue)
      THEN Emit(c0, roomId, "open_squad_selection", NULL)
      ELSE
        With([c0 EXCEPT !.r.currentPlayer = c0.r.auctionQueue[c0.r.auctionIndex + 1],
                        !.r.cpRef = c0.r.auctionIndex + 1],
             LAMBDA c1 :
          IF c1.r.currentPlayer.status # NoStatus
            THEN startNextLot([c1 EXCEPT !.r.auctionIndex = @ + 1], roomId)
            ELSE
              With([c1 EXCEPT !.r.currentBid = c1.r.currentPlayer.basePrice,
                              !.r.currentBidder = NULL,
                              !.r.sellingInProgress = FALSE],
                   LAMBDA c2 :
                startTimer(Emit(c2, roomId, "update_lot",
                                [lot |-> c2.r.currentPlayer.name, currentBid |-> c2.r.currentBid,
                                 lotNumber |-> c2.r.auctionIndex + 1]),
                           roomId))))

----------------------------------------------------------------------------
(* Observation variables, computed from what a handler emitted *)

Has(o, ev) == \E i \in 1..Len(o) : o[i].ev = ev

CountFinal(o, name) ==
  Cardinality({i \in 1..Len(o) : o[i].ev = "sale_finalized" /\ o[i].arg.lot = name})

LotNameSet == {LotNames[i] : i \in 1..Len(LotNames)}

Observe(roomId, c, isTick) ==
  LET started == Has(c.out, "auction_started") IN
    /\ sinceBid' = [sinceBid EXCEPT ![roomId] =
                     IF Has(c.out, "bid_update") THEN 0
                     ELSE IF Has(c.out, "update_lot") THEN -1
                     ELSE IF isTick /\ Has(c.out, "timer_tick") /\ @ >= 0 /\ @ < AUCTION_TIMER_SECONDS
                       THEN @ + 1
                     ELSE @]
    /\ budget0' = [budget0 EXCEPT ![roomId] =
                     IF started THEN [i \in 1..Len(c.r.teams) |-> c.r.teams[i].budget] ELSE @]
    /\ nFinal' = [nFinal EXCEPT ![roomId] =
                     [n \in LotNameSet |-> (IF started THEN 0 ELSE @[n]) + CountFinal(c.out, n)]]
    /\ squadOpen' = [squadOpen EXCEPT ![roomId] =
                     IF started
                       THEN c.out[Len(c.out)].ev = "open_squad_selection"
                       ELSE @ \/ Has(c.out, "open_squad_selection")]

\* A handler that ran on room roomId and left it as c.r, having emitted c.out
Done(roomId, c) ==
  \E x \in {c} :
    /\ rooms' = (roomId :> x.r) @@ rooms
    /\ out' = x.out
    /\ Observe(roomId, x, FALSE)

\* The same for the countdown callback
DoneTick(roomId, c) ==
  \E x \in {c} :
    /\ rooms' = (roomId :> x.r) @@ rooms
    /\ out' = x.out
    /\ Observe(roomId, x, TRUE)

\* No simulation is being computed
NoSim == [pc |-> "idle"]

\* The event ev, sent by connection s, is the one being handled
Event(ev, s) == last' = [ev |-> ev, s |-> s] /\ UNCHANGED sim

\* A handler that touched no room and emitted o
Ignored(o) ==
  /\ out' = o
  /\ UNCHANGED <<rooms, obs>>

Ctx(roomId) == [r |-> rooms[roomId], out |-> <<>>]

\* The model stops selling when the lot index or the pending cooldowns reach their caps
WithinCaps(r) == r.auctionIndex < MaxIndex /\ r.cooldowns < MaxCooldowns

\* The model lets the admin's connection s start fewer than n + 1 auctions in its room
StartsBelow(s, n) == isAdmin(s) => rooms[getRoomId(s)].starts < n

----------------------------------------------------------------------------
(* Socket handlers *)

Join(s, roomId) ==
  socketRooms' = [socketRooms EXCEPT ![s] =
                    IF \E i \in 1..Len(@) : @[i] = roomId THEN @ ELSE Append(@, roomId)]

create_room(s, roomId, password) ==
  IF roomId \in DOMAIN rooms
    THEN /\ Ignored(<<Msg(s, "error_message", "Room Exists!")>>)
         /\ UNCHANGED socketRooms
    ELSE /\ Done(roomId, [r |-> NewRoom(s, password), out |-> <<Msg(s, "roomcreated", roomId)>>])
         /\ Join(s, roomId)

\* the first team whose durable owner is the joining identity is re-bound
RebindOwner(teams, s) ==
  IF \E i \in 1..Len(teams) : teams[i].ownerPlayerId = playerId(s)
    THEN LET i == CHOOSE i \in 1..Len(teams) :
                    /\ teams[i].ownerPlayerId = playerId(s)
                    /\ \A j \in 1..(i - 1) : teams[j].ownerPlayerId # playerId(s)
         IN [teams EXCEPT ![i].ownerSocketId = s]
    ELSE teams

\* What join_room does to the room object
JoinedRoom(r, s) ==
  [r EXCEPT !.users = IF \E i \in 1..Len(@) : @[i] = s THEN @ ELSE Append(@, s),
            !.adminSocketId = IF r.adminPlayerId = playerId(s) THEN s ELSE @,
            !.teams = RebindOwner(@, s)]

\* What join_room emits
JoinedOut(r, s, roomId) ==
  (IF \E i \in 1..Len(r.teams) : r.teams[i].ownerPlayerId = playerId(s)
     THEN <<Msg(s, "team_claim_success", NULL)>> ELSE <<>>)
  \o <<Msg(s, "room_joined", r.adminPlayerId = playerId(s)), Msg(roomId, "lobby_update", NULL)>>

join_room(s, roomId, password) ==
  /\ Event("join_room", s)
  /\ IF roomId \notin DOMAIN rooms \/ rooms[roomId].password # password
       THEN /\ Ignored(<<Msg(s, "error_message", "Invalid Credentials")>>)
            /\ UNCHANGED socketRooms
       ELSE /\ Done(roomId, [r |-> JoinedRoom(rooms[roomId], s),
                             out |-> JoinedOut(rooms[roomId], s, roomId)])
            /\ Join(s, roomId)

update_lobby_teams(s, teams) ==
  LET roomId == getRoomId(s) IN
    /\ UNCHANGED socketRooms
    /\ IF roomId \in DOMAIN rooms
         THEN Done(roomId, Emit([Ctx(roomId) EXCEPT !.r.teams = teams], roomId, "lobby_update", NULL))
         ELSE Ignored(<<>>)

claim_lobby_team(s, key) ==
  LET roomId == getRoomId(s) IN
    /\ UNCHANGED socketRooms
    /\ IF roomId \notin DOMAIN rooms
         THEN Ignored(<<>>)
         ELSE
           LET r == rooms[roomId]
               t == FindTeam(r.teams, key)
           IN IF \E i \in 1..Len(r.teams) :
                   r.teams[i].ownerPlayerId = playerId(s) /\ r.teams[i].bidKey # key
                THEN Ignored(<<Msg(s, "error_message", "You already own a team!")>>)
              ELSE IF t # 0 /\ (~r.teams[t].isTaken \/ r.teams[t].ownerPlayerId = playerId(s))
                THEN Done(roomId,
                          Emit(Emit([Ctx(roomId) EXCEPT !.r.teams[t].isTaken = TRUE,
                                                        !.r.teams[t].ownerSocketId = s,
                                                        !.r.teams[t].ownerPlayerId = playerId(s)],
                                    s, "team_claim_success", key),
                               roomId, "lobby_update", NULL))
              ELSE Ignored(<<>>)

reclaim_team(s, key) ==
  LET roomId == getRoomId(s) IN
    /\ UNCHANGED socketRooms
    /\ IF roomId \notin DOMAIN rooms
         THEN Ignored(<<>>)
         ELSE
           LET r == rooms[roomId]
               t == FindTeam(r.teams, key)
           IN IF t # 0 /\ r.teams[t].ownerPlayerId = playerId(s)
                THEN Done(roomId, Emit([Ctx(roomId) EXCEPT !.r.teams[t].ownerSocketId = s],
                                       s, "team_claim_success", key))
                ELSE Ignored(<<>>)

request_reclaim_manual(s, teamKey) ==
  LET roomId == getRoomId(s) IN
    /\ UNCHANGED socketRooms
    /\ IF roomId \notin DOMAIN rooms
         THEN Ignored(<<>>)
         ELSE
           LET r == rooms[roomId] IN
             IF FindTeam(r.teams, teamKey) = 0
               THEN Ignored(<<>>)
               ELSE Ignored(<<Msg(r.adminSocketId, "admin_reclaim_request",
                                  [teamKey |-> teamKey, requesterId |-> s,
                                   requesterPid |-> playerId(s)])>>)

admin_reclaim_decision(s, approved, teamKey, requesterId, requesterPid) ==
  LET roomId == getRoomId(s) IN
    /\ UNCHANGED socketRooms
    /\ IF roomId \notin DOMAIN rooms \/ ~isAdmin(s)
         THEN Ignored(<<>>)
         ELSE
           LET t == FindTeam(rooms[roomId].teams, teamKey) IN
             IF approved
               THEN IF t # 0
                      THEN Done(roomId,
                                Emit(Emit([Ctx(roomId) EXCEPT !.r.teams[t].ownerSocketId = requesterId,
                                                              !.r.teams[t].ownerPlayerId = requesterPid],
                                          requesterId, "team_claim_success", teamKey),
                                     roomId, "lobby_update", NULL))
                      ELSE Ignored(<<>>)
               ELSE Ignored(<<Msg(requesterId, "error_message", "Host denied your reclaim request.")>>)

admin_rename_team(s, key, newName) ==
  LET roomId == getRoomId(s) IN
    /\ UNCHANGED socketRooms
    /\ IF ~isAdmin(s)
         THEN Ignored(<<>>)
         ELSE
           LET t == FindTeam(rooms[roomId].teams, key)
               c1 == IF t # 0 THEN [Ctx(roomId) EXCEPT !.r.teams[t].name = newName] ELSE Ctx(roomId)
           IN Done(roomId, Emit(c1, roomId, "lobby_update", NULL))

\* A squad as a client sends it: its lineup, or no playing11 at all
Squad(players) == [playing11 |-> players, undefined |-> FALSE]
NoLineup == [playing11 |-> <<>>, undefined |-> TRUE]

submit_squad(s, teamKey, squad) ==
  LET roomId == getRoomId(s) IN
    /\ UNCHANGED socketRooms
    /\ IF roomId \in DOMAIN rooms
         THEN Done(roomId,
                   Emit([Ctx(roomId) EXCEPT !.r.squads = (teamKey :> squad) @@ @],
                        roomId, "squad_submission_update", NULL))
         ELSE Ignored(<<>>)

\* The lineup a team has submitted, none if it has submitted no squad
Submitted(r, t) == IF t.bidKey \in DOMAIN r.squads THEN r.squads[t.bidKey].playing11 ELSE <<>>

\* runSimulationLogic: p11.length is read of a squad that carries no playing11
PrepareThrows(r) ==
  \E i \in 1..Len(r.teams) :
    /\ r.teams[i].isTaken
    /\ r.teams[i].bidKey \in DOMAIN r.squads
    /\ r.squads[r.teams[i].bidKey].undefined

\* The lineup is taken as submitted: nothing is filled in
FillUp_AsSubmitted(p11, roster) == p11

\* runSimulationLogic: the lineup p11, filled up from the roster of the team
FillUp(p11, roster) ==
  LET InLineup(e) == \E i \in 1..Len(p11) : p11[i].name = e.name
      NotInLineup(e) == ~InLineup(e)
      available == SelectSeq(roster, NotInLineup)
      needed == LINEUP_SIZE - Len(p11)
  IN IF Len(p11) < LINEUP_SIZE /\ Len(roster) > 0
       THEN p11 \o SubSeq(available, 1, IF needed < Len(available) THEN needed ELSE Len(available))
       ELSE p11

\* runSimulationLogic: the lineup of team t of room r
PreparedLineup(r, t) == FillUp(Submitted(r, t), t.roster)

\* runSimulationLogic: the taken teams that have at least one player to field
Eligible(r) == {i \in 1..Len(r.teams) : r.teams[i].isTaken /\ PreparedLineup(r, r.teams[i]) # <<>>}

\* An exception no handler catches ends the server process: the registry of
\* rooms and every connection are gone
Uncaught(msg) ==
  /\ rooms' = [id \in {} |-> NULL]
  /\ socketRooms' = [s \in DOMAIN socketRooms |-> <<>>]
  /\ out' = <<Msg(NULL, "uncaughtException", msg)>>
  /\ UNCHANGED obs

\* The connection has closed. The socket library takes it out of its rooms
\* around the time it raises the event, so the handler finds the room the
\* connection was in, or none any more; either way the connection is in no
\* room afterwards
disconnect(s) ==
  /\ socketRooms' = [socketRooms EXCEPT ![s] = <<>>]
  /\ \E roomId \in {getRoomId(s), NULL} :
       IF roomId \in DOMAIN rooms
         THEN LET NotS(u) == u # s IN
                Done(roomId, Emit([Ctx(roomId) EXCEPT !.r.users = SelectSeq(@, NotS)],
                                  roomId, "lobby_update", NULL))
         ELSE Ignored(<<>>)

\* The simulation either returns results or throws, which the handler
\* catches; the tournament itself is computed by runAdvancedSimulation below
run_simulation(s) ==
  LET roomId == getRoomId(s) IN
    IF roomId \in DOMAIN rooms /\ isAdmin(s)
      THEN IF PrepareThrows(rooms[roomId])
             THEN Uncaught("TypeError")
           ELSE IF Cardinality(Eligible(rooms[roomId])) < 2
             THEN /\ Ignored(<<Msg(roomId, "simulation_error",
                                   "Need at least 2 teams with players to simulate!")>>)
                  /\ UNCHANGED socketRooms
           ELSE /\ \/ Ignored(<<Msg(roomId, "tournament_results", NULL)>>)
                   \/ Ignored(<<Msg(roomId, "simulation_error", "Server Logic Error")>>)
                /\ UNCHANGED socketRooms
      ELSE Ignored(<<>>) /\ UNCHANGED socketRooms

start_auction(s, teams, queue) ==
  LET roomId == getRoomId(s) IN
    /\ UNCHANGED socketRooms
    /\ IF roomId \in DOMAIN rooms /\ isAdmin(s)
         THEN
           /\ LET c0 == Ctx(roomId)
                  c1 == [c0 EXCEPT !.r.teams = [i \in 1..Len(teams) |->
                                                  [teams[i] EXCEPT !.roster = <<>>,
                                                                   !.totalSpent = 0,
                                                                   !.totalPlayers = 0]],
                                   !.r.auctionQueue = queue,
                                   !.r.cpRef = 0,
                                   !.r.isActive = TRUE,
                                   !.r.starts = @ + 1]
                  c2 == Emit(c1, roomId, "auction_started", NULL)
              IN Done(roomId, startNextLot(c2, roomId))
         ELSE Ignored(<<>>)

\* Mutant of BidOutOfPhase: a bid is looked at while the timer is paused
BidOutOfPhase_NoPause(r) ==
  ~r.isActive \/ r.sellingInProgress \/ r.currentPlayer = NoPlayer

\* the phase guard of place_bid
BidOutOfPhase(r) ==
  ~r.isActive \/ r.timerPaused \/ r.sellingInProgress \/ r.currentPlayer = NoPlayer

\* Mutant of OwnsTeam: every connection may bid for every team
OwnsTeam_Anyone(t, s) == TRUE

\* the authorization check of place_bid: s is the team's bound connection or
\* carries the durable identity of its owner
OwnsTeam(t, s) == t.ownerSocketId = s \/ t.ownerPlayerId = playerId(s)

place_bid(s, teamKey, amount) ==
  LET roomId == getRoomId(s)
      r == rooms[roomId]
  IN
    /\ UNCHANGED socketRooms
    /\ IF roomId \notin DOMAIN rooms
         THEN Ignored(<<>>)
         ELSE IF BidOutOfPhase(r)
         THEN Ignored(<<>>)
         ELSE
           LET ti == FindTeam(r.teams, teamKey) IN
             IF ti = 0 THEN Ignored(<<>>)
             ELSE IF ~OwnsTeam(r.teams[ti], s)
               THEN Ignored(<<Msg(s, "error_message", "Authorization Failed")>>)
             ELSE
               LET c1 == [Ctx(roomId) EXCEPT !.r.teams[ti].ownerSocketId = s] IN
                 IF c1.r.currentBidder = teamKey
                   THEN Done(roomId, c1)
                 ELSE IF c1.r.teams[ti].budget < amount
                   THEN Done(roomId, Emit(c1, s, "error_message", "No Budget!"))
                 ELSE IF amount <= c1.r.currentBid /\ c1.r.currentBidder # NULL
                   THEN Done(roomId, Emit(c1, s, "error_message", "Bid too low!"))
                 ELSE
                   LET c2 == [c1 EXCEPT !.r.currentBid = amount, !.r.currentBidder = teamKey]
                       c3 == Emit(c2, roomId, "bid_update", [amount |-> amount, team |-> teamKey])
                   IN Done(roomId, startTimer(c3, roomId))

toggle_timer(s) ==
  LET roomId == getRoomId(s) IN
    /\ UNCHANGED socketRooms
    /\ IF roomId \in DOMAIN rooms /\ isAdmin(s)
         THEN LET c1 == [Ctx(roomId) EXCEPT !.r.timerPaused = ~@]
              IN Done(roomId, Emit(c1, roomId, "timer_status", c1.r.timerPaused))
         ELSE Ignored(<<>>)

\* Mutant of finalize_sale: the isUnsold flag of the request is not looked at
finalize_sale_IgnoresUnsold(s, isUnsold) ==
  LET roomId == getRoomId(s) IN
    /\ UNCHANGED socketRooms
    /\ IF isAdmin(s)
         THEN LET c1 == Ctx(roomId)
              IN /\ (c1.r.currentPlayer # NoPlayer /\ ~c1.r.sellingInProgress) => WithinCaps(c1.r)
                 /\ Done(roomId, processSale(c1, roomId))
         ELSE Ignored(<<>>)

finalize_sale(s, isUnsold) ==
  LET roomId == getRoomId(s) IN
    /\ UNCHANGED socketRooms
    /\ IF isAdmin(s)
         THEN LET c1 == IF isUnsold THEN [Ctx(roomId) EXCEPT !.r.currentBidder = NULL]
                                    ELSE Ctx(roomId)
              IN /\ (c1.r.currentPlayer # NoPlayer /\ ~c1.r.sellingInProgress) => WithinCaps(c1.r)
                 /\ Done(roomId, processSale(c1, roomId))
         ELSE Ignored(<<>>)

end_auction_trigger(s) ==
  LET roomId == getRoomId(s) IN
    /\ UNCHANGED socketRooms
    /\ IF isAdmin(s) /\ roomId \in DOMAIN rooms
         THEN Done(roomId, Emit([stopTimer(Ctx(roomId)) EXCEPT !.r.isActive = FALSE],
                                roomId, "open_squad_selection", NULL))
         ELSE Ignored(<<>>)

----------------------------------------------------------------------------
(* Event-loop callbacks *)

\* Mutant of Tick: the callback counts down whether the timer is paused or not
Tick_IgnoresPause(roomId, h) ==
  /\ roomId \in DOMAIN rooms
  /\ h \in rooms[roomId].intervals
  /\ UNCHANGED socketRooms
  /\ LET c1 == [Ctx(roomId) EXCEPT !.r.timer = @ - 1]
         c2 == Emit(c1, roomId, "timer_tick", c1.r.timer)
     IN IF c2.r.timer <= 0
          THEN /\ (c2.r.currentPlayer # NoPlayer /\ ~c2.r.sellingInProgress) => WithinCaps(c2.r)
               /\ c2.r.timer > -2
               /\ DoneTick(roomId, processSale(c2, roomId))
          ELSE DoneTick(roomId, c2)

\* Mutant of Tick: the countdown reaching zero finalizes nothing
Tick_NoExpiry(roomId, h) ==
  /\ roomId \in DOMAIN rooms
  /\ h \in rooms[roomId].intervals
  /\ UNCHANGED socketRooms
  /\ IF rooms[roomId].timerPaused
       THEN DoneTick(roomId, Ctx(roomId))
       ELSE LET c1 == [Ctx(roomId) EXCEPT !.r.timer = @ - 1]
            IN /\ c1.r.timer > -2
               /\ DoneTick(roomId, Emit(c1, roomId, "timer_tick", c1.r.timer))

\* the setInterval callback installed by startTimer, with handle h
Tick(roomId, h) ==
  /\ roomId \in DOMAIN rooms
  /\ h \in rooms[roomId].intervals
  /\ UNCHANGED socketRooms
  /\ IF rooms[roomId].timerPaused
       THEN DoneTick(roomId, Ctx(roomId))
       ELSE LET c1 == [Ctx(roomId) EXCEPT !.r.timer = @ - 1]
                c2 == Emit(c1, roomId, "timer_tick", c1.r.timer)
            IN IF c2.r.timer <= 0
                 THEN /\ (c2.r.currentPlayer # NoPlayer /\ ~c2.r.sellingInProgress) => WithinCaps(c2.r)
                      /\ c2.r.timer > -2
                      /\ DoneTick(roomId, processSale(c2, roomId))
                 ELSE DoneTick(roomId, c2)

\* the setTimeout(4000) callback installed by processSale
Cooldown(roomId) ==
  /\ roomId \in DOMAIN rooms
  /\ rooms[roomId].cooldowns > 0
  /\ UNCHANGED socketRooms
  /\ LET c1 == [Ctx(roomId) EXCEPT !.r.cooldowns = @ - 1, !.r.sellingInProgress = FALSE]
     IN Done(roomId, startNextLot(c1, roomId))

----------------------------------------------------------------------------
(* Simulation engine: simulateInnings *)

INNINGS_BALLS == 120          \* deliveries of an innings
OVER_BALLS == 6               \* deliveries of an over

\* What a delivery can bring: a wicket, no run, a single, a four or a six
Outcomes == {-1, 0, 1, 4, 6}

\* No target: the side bats first
NoTarget == -1

\* Lineup sizes of the batting side and the targets it is set
LineupSizes == 1..LINEUP_SIZE
ChaseTargets == {NoTarget, 0, 2}

\* `target && ...`: null and 0 are both falsy
Truthy(target) == target # NoTarget /\ target # 0

\* The locals of simulateInnings before the first delivery, for a batting
\* lineup of n players; the indexes count from 0 as in the code
StartInnings(n, target) ==
  [pc |-> "ball", n |-> n, target |-> target,
   score |-> 0, wickets |-> 0, balls |-> 0,
   strikerIdx |-> 0, nonStrikerIdx |-> 1,
   status |-> [k \in 0..(n - 1) |-> IF k <= 1 THEN "not out" ELSE "dnb"]]

maxWickets(v) == IF v.n - 1 > 0 THEN v.n - 1 ELSE 0

\* The condition of the while loop and the breaks at the top of its body
Continues(v) ==
  /\ v.balls < INNINGS_BALLS
  /\ v.wickets < maxWickets(v)
  /\ ~(Truthy(v.target) /\ v.score > v.target)
  /\ v.strikerIdx \in DOMAIN v.status

\* battingCard.findIndex(b => b.status === "dnb"), -1 if there is none
NextBat(status) ==
  IF \E k \in DOMAIN status : status[k] = "dnb"
    THEN CHOOSE k \in DOMAIN status :
           status[k] = "dnb" /\ \A m \in DOMAIN status : status[m] = "dnb" => k <= m
    ELSE -1

\* The strike changes at the end of an over
EndOfOver(v) ==
  IF v.balls % OVER_BALLS = 0
    THEN [v EXCEPT !.strikerIdx = v.nonStrikerIdx, !.nonStrikerIdx = v.strikerIdx]
    ELSE v

\* One pass through the body of the loop, the delivery bringing outcome
Delivery(v, outcome) ==
  LET v1 == [v EXCEPT !.balls = @ + 1] IN
    IF outcome = -1
      THEN LET v2 == [v1 EXCEPT !.wickets = @ + 1, !.status[v.strikerIdx] = "out"]
               nextBatIdx == NextBat(v2.status)
               v3 == IF nextBatIdx > -1
                       THEN [v2 EXCEPT !.strikerIdx = nextBatIdx, !.status[nextBatIdx] = "not out"]
                       ELSE v2
           IN EndOfOver(v3)
      ELSE LET v2 == [v1 EXCEPT !.score = @ + outcome]
               v3 == IF outcome % 2 # 0
                       THEN LET sw == [v2 EXCEPT !.strikerIdx = v2.nonStrikerIdx,
                                                 !.nonStrikerIdx = v2.strikerIdx]
                            IN IF sw.strikerIdx \notin DOMAIN sw.status
                                  /\ sw.nonStrikerIdx \in DOMAIN sw.status
                                 THEN [sw EXCEPT !.strikerIdx = sw.nonStrikerIdx]
                                 ELSE sw
                       ELSE v2
           IN EndOfOver(v3)

\* What the steps of the simulation leave alone
SimOnly == UNCHANGED <<rooms, socketRooms, out, obs, last>>

\* A delivery is bowled; the model keeps the score within MaxScore
Ball(outcome) ==
  /\ sim.pc = "ball"
  /\ Continues(sim)
  /\ outcome > 0 => sim.score + outcome <= MaxScore
  /\ sim' = Delivery(sim, outcome)
  /\ SimOnly

\* The loop is left and the innings is returned
EndInnings ==
  /\ sim.pc = "ball"
  /\ ~Continues(sim)
  /\ sim' = [sim EXCEPT !.pc = "ended"]
  /\ SimOnly

----------------------------------------------------------------------------
(* Simulation engine: playMatch and runAdvancedSimulation *)

FULL_OVERS == 20              \* overs credited for an innings of the side batting first
WIN_POINTS == 2          \* points of a league win

\* The innings simulateInnings can return for a lineup of n players and a
\* target, as far as the model tells them apart: the loop has been left, by
\* its condition or by the break, and had not been left a delivery earlier
InningsResults(n, target) ==
  LET mw == IF n - 1 > 0 THEN n - 1 ELSE 0 IN
    {i \in [score : 0..MaxRuns, wickets : {0, mw}, balls : {0, OVER_BALLS, INNINGS_BALLS}] :
       LET won == Truthy(target) /\ i.score > target IN
         /\ i.wickets <= i.balls
         /\ i.score <= 6 * (i.balls - i.wickets)
         /\ mw = 0 => i.balls = 0
         /\ i.balls = INNINGS_BALLS \/ i.wickets = mw \/ won
         /\ i.balls = INNINGS_BALLS => i.wickets = 0
         /\ won => i.score <= target + 6 /\ i.wickets < mw}

ZeroStats ==
  [p |-> 0, w |-> 0, l |-> 0, pts |-> 0, runsScored |-> 0, runsConceded |-> 0,
   oversFaced |-> 0, oversBowled |-> 0]   \* overs are counted in deliveries, 6 to the over

\* A team as runSimulationLogic hands it over: id tells the objects apart,
\* size is the length of its lineup
TourneyTeam(id, name, size) == [id |-> id, name |-> name, size |-> size, stats |-> ZeroStats]

\* The side batting first wins every match
Winner_BattingFirst(x, y, i1, i2, coin) == x

\* playMatch: the winner, as a position in teams
Winner(x, y, i1, i2, coin) ==
  IF i2.score > i1.score THEN y
  ELSE IF i1.score = i2.score THEN (IF coin THEN x ELSE y)
  ELSE x

\* playMatch: the league table after a match of teams[x], batting first, and teams[y]
LeagueStats(teams, x, y, i1, i2, coin) ==
  LET win == Winner(x, y, i1, i2, coin)
      lose == IF win = x THEN y ELSE x
      t1 == [teams EXCEPT ![win].stats.p = @ + 1, ![win].stats.w = @ + 1,
                          ![win].stats.pts = @ + WIN_POINTS]
      t2 == [t1 EXCEPT ![lose].stats.p = @ + 1, ![lose].stats.l = @ + 1]
      t3 == [t2 EXCEPT ![win].stats.runsScored = @ + (IF win = x THEN i1.score ELSE i2.score),
                       ![win].stats.oversFaced = @ + (IF win = x THEN FULL_OVERS * OVER_BALLS ELSE i2.balls),
                       ![win].stats.runsConceded = @ + (IF win = x THEN i2.score ELSE i1.score),
                       ![win].stats.oversBowled = @ + (IF win = x THEN i2.balls ELSE FULL_OVERS * OVER_BALLS)]
  IN [t3 EXCEPT ![lose].stats.runsScored = @ + (IF lose = x THEN i1.score ELSE i2.score),
                ![lose].stats.oversFaced = @ + (IF lose = x THEN FULL_OVERS * OVER_BALLS ELSE i2.balls),
                ![lose].stats.runsConceded = @ + (IF lose = x THEN i2.score ELSE i1.score),
                ![lose].stats.oversBowled = @ + (IF lose = x THEN i2.balls ELSE FULL_OVERS * OVER_BALLS)]

\* playMatch: what it returns, without the scorecards, and with the ids of
\* the two objects it was given and of the winner
MatchResult(teams, x, y, type, i1, i2, coin) ==
  [t1 |-> teams[x].name, t2 |-> teams[y].name,
   winnerName |-> teams[Winner(x, y, i1, i2, coin)].name, type |-> type,
   a |-> teams[x].id, b |-> teams[y].id, win |-> teams[Winner(x, y, i1, i2, coin)].id]

\* The net run rate of a team is num/den, 0 when it has faced or bowled no delivery
NrrNum(st) ==
  IF st.oversFaced > 0 /\ st.oversBowled > 0
    THEN st.runsScored * st.oversBowled - st.runsConceded * st.oversFaced
    ELSE 0
NrrDen(st) ==
  IF st.oversFaced > 0 /\ st.oversBowled > 0 THEN st.oversFaced * st.oversBowled ELSE 1

\* The comparator of the standings: team a comes before team b
Before(a, b) ==
  \/ a.stats.pts > b.stats.pts
  \/ /\ a.stats.pts = b.stats.pts
     /\ NrrNum(a.stats) * NrrDen(b.stats) > NrrNum(b.stats) * NrrDen(a.stats)

\* The teams are left in the order they came in
Standings_Unsorted(teams) == teams

\* teams.sort: the sort is stable, teams that compare equal keep their order
Standings(teams) ==
  LET n == Len(teams)
      Rank(k) == Cardinality({m \in 1..n : Before(teams[m], teams[k])
                                           \/ (~Before(teams[k], teams[m]) /\ m < k)}) + 1
  IN [r \in 1..n |-> teams[CHOOSE k \in 1..n : Rank(k) = r]]

\* teams.find(t => t.name === name): the position of the first team of that name
FindName(teams, name) ==
  CHOOSE k \in 1..Len(teams) : teams[k].name = name /\ \A m \in 1..(k - 1) : teams[m].name # name

\* The locals of runAdvancedSimulation when the league stage begins
StartTournament(teams) ==
  [pc |-> "league", teams |-> teams, i |-> 1, j |-> 2,
   leagueMatches |-> <<>>, playoffs |-> <<>>, winner |-> NULL, runnerUp |-> NULL,
   i1 |-> NULL, i2 |-> NULL]

\* A match of teams[x] and teams[y] is played: its two innings and the toss
\* of a tie are drawn; i1 and i2 stay as the latest call of playMatch had them
Played(x, y, F(_, _, _)) ==
  \E i1 \in InningsResults(sim.teams[x].size, NoTarget) :
    \E i2 \in InningsResults(sim.teams[y].size, i1.score) :
      \E coin \in BOOLEAN : F(i1, i2, coin)

\* The league stage: the next pass of the inner loop
LeagueMatch ==
  /\ sim.pc = "league"
  /\ sim.i <= Len(sim.teams) /\ sim.j <= Len(sim.teams)
  /\ Played(sim.i, sim.j, LAMBDA i1, i2, coin :
       sim' = [sim EXCEPT !.i1 = i1, !.i2 = i2, !.teams = LeagueStats(sim.teams, sim.i, sim.j, i1, i2, coin),
                          !.leagueMatches = Append(@, MatchResult(sim.teams, sim.i, sim.j, "League", i1, i2, coin)),
                          !.j = @ + 1])
  /\ SimOnly

\* The outer loop goes on with the inner loop starting at i, not at i + 1
NextRow_FromSelf ==
  /\ sim.pc = "league"
  /\ sim.i <= Len(sim.teams) /\ sim.j > Len(sim.teams)
  /\ sim' = [sim EXCEPT !.i = @ + 1, !.j = sim.i + 1]
  /\ SimOnly

\* The league stage: the inner loop is left and the outer loop goes on
NextRow ==
  /\ sim.pc = "league"
  /\ sim.i <= Len(sim.teams) /\ sim.j > Len(sim.teams)
  /\ sim' = [sim EXCEPT !.i = @ + 1, !.j = sim.i + 2]
  /\ SimOnly

\* The league is over: the net run rates are computed and the teams sorted
SortStandings ==
  /\ sim.pc = "league"
  /\ sim.i > Len(sim.teams)
  /\ sim' = [sim EXCEPT !.teams = Standings(sim.teams),
                        !.pc = IF Len(sim.teams) >= 4 THEN "q1" ELSE "final",
                        !.winner = Standings(sim.teams)[1].name,
                        !.runnerUp = Standings(sim.teams)[2].name]
  /\ SimOnly

Qualifier1 ==
  /\ sim.pc = "q1"
  /\ Played(1, 2, LAMBDA i1, i2, coin :
       sim' = [sim EXCEPT !.i1 = i1, !.i2 = i2, !.playoffs = Append(@, MatchResult(sim.teams, 1, 2, "Qualifier 1", i1, i2, coin)),
                          !.pc = "elim"])
  /\ SimOnly

Eliminator ==
  /\ sim.pc = "elim"
  /\ Played(3, 4, LAMBDA i1, i2, coin :
       sim' = [sim EXCEPT !.i1 = i1, !.i2 = i2, !.playoffs = Append(@, MatchResult(sim.teams, 3, 4, "Eliminator", i1, i2, coin)),
                          !.pc = "q2"])
  /\ SimOnly

Qualifier2 ==
  LET q1 == sim.playoffs[1]
      elim == sim.playoffs[2]
      tQ2_1 == IF q1.winnerName = sim.teams[1].name THEN 2 ELSE 1
      tQ2_2 == IF elim.winnerName = sim.teams[3].name THEN 3 ELSE 4
  IN /\ sim.pc = "q2"
     /\ Played(tQ2_1, tQ2_2, LAMBDA i1, i2, coin :
          sim' = [sim EXCEPT !.i1 = i1, !.i2 = i2, !.playoffs = Append(@, MatchResult(sim.teams, tQ2_1, tQ2_2, "Qualifier 2", i1, i2, coin)),
                             !.pc = "final"])
     /\ SimOnly

\* The Final, of the bracket or of the two teams at the top, and the return
Final ==
  LET four == Len(sim.teams) >= 4
      tFin_1 == IF four THEN FindName(sim.teams, sim.playoffs[1].winnerName) ELSE 1
      tFin_2 == IF four THEN FindName(sim.teams, sim.playoffs[3].winnerName) ELSE 2
  IN /\ sim.pc = "final"
     /\ Played(tFin_1, tFin_2, LAMBDA i1, i2, coin :
          LET final == MatchResult(sim.teams, tFin_1, tFin_2, "FINAL", i1, i2, coin) IN
            sim' = [sim EXCEPT !.i1 = i1, !.i2 = i2, !.playoffs = Append(@, final),
                               !.winner = final.winnerName,
                               !.runnerUp = IF final.winnerName = sim.teams[tFin_1].name
                                              THEN sim.teams[tFin_2].name
                                              ELSE sim.teams[tFin_1].name,
                               !.pc = "done"])
     /\ SimOnly

----------------------------------------------------------------------------
(* Specification *)

\* The room r1 has been created by s1 and joined by s2
Init ==
  /\ rooms = ("r1" :> JoinedRoom(NewRoom("s1", "pw"), "s2"))
  /\ socketRooms = [s \in Connections |-> IF s \in Sockets THEN <<"r1">> ELSE <<>>]
  /\ out = JoinedOut(NewRoom("s1", "pw"), "s2", "r1")
  /\ budget0 = [id \in RoomIds |-> <<>>]
  /\ nFinal = [id \in RoomIds |-> [n \in LotNameSet |-> 0]]
  /\ squadOpen = [id \in RoomIds |-> FALSE]
  /\ sinceBid = [id \in RoomIds |-> -1]
  /\ last = [ev |-> "join_room", s |-> "s2"]
  /\ sim = NoSim

\* The events of a running auction: the admin's controls, the bids and the callbacks
NextAuction ==
  \/ \E s \in Sockets, t \in TeamInputs, q \in QueueInputs :
       StartsBelow(s, MaxStarts) /\ start_auction(s, t, q) /\ UNCHANGED <<last, sim>>
  \/ \E s \in Sockets, k \in TeamKeys, a \in Amounts : place_bid(s, k, a) /\ UNCHANGED <<last, sim>>
  \/ \E s \in Sockets : toggle_timer(s) /\ UNCHANGED <<last, sim>>
  \/ \E s \in Sockets, u \in BOOLEAN : finalize_sale(s, u) /\ UNCHANGED <<last, sim>>
  \/ \E s \in Sockets : end_auction_trigger(s) /\ UNCHANGED <<last, sim>>
  \/ \E id \in RoomIds, h \in 1..MaxHandles : Tick(id, h) /\ UNCHANGED <<last, sim>>
  \/ \E id \in RoomIds : Cooldown(id) /\ UNCHANGED <<last, sim>>

SpecAuction == Init /\ [][NextAuction]_vars

\* The timers of the event loop fire: a live interval ticks every second and
\* a pending timeout runs after four seconds
FairAuction ==
  /\ SpecAuction
  /\ \A id \in RoomIds : WF_vars(\E h \in 1..MaxHandles : Tick(id, h) /\ UNCHANGED <<last, sim>>)
  /\ \A id \in RoomIds : WF_vars(Cooldown(id) /\ UNCHANGED <<last, sim>>)

\* The same with the lobby event any member of the room can send at any time
Next ==
  \/ NextAuction
  \/ \E s \in Sockets, t \in LobbyInputs : update_lobby_teams(s, t) /\ UNCHANGED <<last, sim>>

Spec == Init /\ [][Next]_vars

\* The auction events with the event that ran last on record, for a queue of one fresh lot
NextEvents ==
  \/ \E s \in Sockets, t \in TeamInputs :
       StartsBelow(s, MaxStarts) /\ start_auction(s, t, <<Lot(1, NoStatus)>>) /\ Event("start_auction", s)
  \/ \E s \in Sockets, k \in TeamKeys, a \in Amounts : place_bid(s, k, a) /\ Event("place_bid", s)
  \/ \E s \in Sockets : toggle_timer(s) /\ Event("toggle_timer", s)
  \/ \E s \in Sockets, u \in BOOLEAN : finalize_sale(s, u) /\ Event("finalize_sale", s)
  \/ \E s \in Sockets : end_auction_trigger(s) /\ Event("end_auction_trigger", s)
  \/ \E id \in RoomIds, h \in 1..MaxHandles : Tick(id, h) /\ Event("tick", NULL)
  \/ \E id \in RoomIds : Cooldown(id) /\ Event("cooldown", NULL)

SpecEvents == Init /\ [][NextEvents]_vars

\* The lobby of a room, with the event that ran last on record: teams are
\* published, claimed and reclaimed, reclaim requests are sent and decided,
\* and connections join, the admin's identity on a second connection
NextLobby ==
  \/ \E s \in Connections : \E t \in LobbyLists(s) :
       update_lobby_teams(s, t) /\ Event("update_lobby_teams", s)
  \/ \E s \in Connections, k \in TeamKeys : claim_lobby_team(s, k) /\ Event("claim_lobby_team", s)
  \/ \E s \in Connections, k \in TeamKeys : reclaim_team(s, k) /\ Event("reclaim_team", s)
  \/ \E s \in Connections, k \in TeamKeys :
       request_reclaim_manual(s, k) /\ Event("request_reclaim_manual", s)
  \/ \E s \in Connections, a \in BOOLEAN, k \in TeamKeys, q \in Connections, pid \in PlayerIds :
       admin_reclaim_decision(s, a, k, q, pid) /\ Event("admin_reclaim_decision", s)
  \/ \E s \in Connections, pw \in Passwords : join_room(s, "r1", pw)

SpecLobby == Init /\ [][NextLobby]_vars

\* The events reserved to the admin, with the event that ran last on record:
\* the auction of two lots is started, paused, finalized and ended, with bids
\* in between, teams are renamed, reclaim requests are decided and the
\* simulation is run
NextAdmin ==
  \/ \E s \in Sockets, t \in TeamInputs :
       /\ StartsBelow(s, MaxStarts)
       /\ start_auction(s, t, <<Lot(1, NoStatus), Lot(2, NoStatus)>>)
       /\ Event("start_auction", s)
  \/ \E s \in Sockets, k \in TeamKeys, a \in Amounts : place_bid(s, k, a) /\ Event("place_bid", s)
  \/ \E s \in Sockets : toggle_timer(s) /\ Event("toggle_timer", s)
  \/ \E s \in Sockets, u \in BOOLEAN : finalize_sale(s, u) /\ Event("finalize_sale", s)
  \/ \E s \in Sockets : end_auction_trigger(s) /\ Event("end_auction_trigger", s)
  \/ \E id \in RoomIds : Cooldown(id) /\ Event("cooldown", NULL)
  \/ \E s \in Sockets, a \in BOOLEAN, k \in TeamKeys :
       admin_reclaim_decision(s, a, k, "s2", "p2") /\ Event("admin_reclaim_decision", s)
  \/ \E s \in Sockets, k \in TeamKeys, n \in NewNames :
       admin_rename_team(s, k, n) /\ Event("admin_rename_team", s)
  \/ \E s \in Sockets : run_simulation(s) /\ Event("run_simulation", s)

SpecAdmin == Init /\ [][NextAdmin]_vars

\* The ids of the rooms when a second room is created
TwoRooms == RoomIds \cup {"r2"}

\* The names io.to() can be given in the requesterId of a decision: the id of
\* a connection or the id of a room
Targets == Connections \cup TwoRooms

\* Room r1 as in Init, with room r2 still to be created
InitRooms ==
  /\ rooms = ("r1" :> JoinedRoom(NewRoom("s1", "pw"), "s2"))
  /\ socketRooms = [s \in Connections |-> IF s \in Sockets THEN <<"r1">> ELSE <<>>]
  /\ out = JoinedOut(NewRoom("s1", "pw"), "s2", "r1")
  /\ budget0 = [id \in TwoRooms |-> <<>>]
  /\ nFinal = [id \in TwoRooms |-> [n \in LotNameSet |-> 0]]
  /\ squadOpen = [id \in TwoRooms |-> FALSE]
  /\ sinceBid = [id \in TwoRooms |-> -1]
  /\ last = [ev |-> "join_room", s |-> "s2"]
  /\ sim = NoSim

\* Two rooms, with the event that ran last on record: a second room is
\* created and joined, also by a connection that is in the first room; in
\* one of the rooms the auction of one lot is run, with nobody bidding, and
\* in both reclaim requests for team A are decided
NextRooms ==
  \/ \E s \in Connections \ {"s1"} : create_room(s, "r2", "pw") /\ Event("create_room", s)
  \/ \E s \in Connections \ {"s1"} : join_room(s, "r2", "pw")
  \/ \E s \in Connections, t \in TeamInputs :
       /\ \A id \in DOMAIN rooms : rooms[id].starts = 0
       /\ start_auction(s, t, <<Lot(1, NoStatus)>>)
       /\ Event("start_auction", s)
  \/ \E s \in Connections : end_auction_trigger(s) /\ Event("end_auction_trigger", s)
  \/ \E s \in Connections, a \in BOOLEAN, q \in Targets :
       admin_reclaim_decision(s, a, "A", q, "p2") /\ Event("admin_reclaim_decision", s)
  \/ \E id \in TwoRooms, h \in 1..MaxHandles : Tick(id, h) /\ Event("tick", id)
  \/ \E id \in TwoRooms : Cooldown(id) /\ Event("cooldown", id)

SpecRooms == InitRooms /\ [][NextRooms]_vars

\* The lineups a client sends with the squad of team teamKey: the players
\* the team has won, no player at all, or a squad without a lineup
SquadInputs(s, teamKey) ==
  LET roomId == getRoomId(s)
      t == IF roomId \in DOMAIN rooms THEN FindTeam(rooms[roomId].teams, teamKey) ELSE 0
  IN {NoLineup, Squad(<<>>)} \cup (IF t # 0 THEN {Squad(rooms[roomId].teams[t].roster)} ELSE {})

\* The auction of two lots and the simulation that follows it, with the
\* event that ran last on record: lots are bid on and finalized, squads are
\* submitted, and the simulation is run
NextSimulation ==
  \/ \E s \in Sockets, t \in TeamInputs :
       /\ StartsBelow(s, MaxStarts)
       /\ start_auction(s, t, <<Lot(1, NoStatus), Lot(2, NoStatus)>>)
       /\ Event("start_auction", s)
  \/ \E s \in Sockets, k \in TeamKeys, a \in Amounts : place_bid(s, k, a) /\ Event("place_bid", s)
  \/ \E s \in Sockets, u \in BOOLEAN : finalize_sale(s, u) /\ Event("finalize_sale", s)
  \/ \E s \in Sockets : end_auction_trigger(s) /\ Event("end_auction_trigger", s)
  \/ \E id \in RoomIds : Cooldown(id) /\ Event("cooldown", NULL)
  \/ \E s \in Sockets, k \in TeamKeys : \E p \in SquadInputs(s, k) :
       submit_squad(s, k, p) /\ Event("submit_squad", s)
  \/ \E s \in Sockets : run_simulation(s) /\ Event("run_simulation", s)

SpecSimulation == Init /\ [][NextSimulation]_vars

\* An innings from its first delivery, for every lineup size and for no
\* target, the target 0 and a target that can be passed
InitInnings ==
  /\ rooms = ("r1" :> JoinedRoom(NewRoom("s1", "pw"), "s2"))
  /\ socketRooms = [s \in Connections |-> IF s \in Sockets THEN <<"r1">> ELSE <<>>]
  /\ out = <<>>
  /\ budget0 = [id \in RoomIds |-> <<>>]
  /\ nFinal = [id \in RoomIds |-> [n \in LotNameSet |-> 0]]
  /\ squadOpen = [id \in RoomIds |-> FALSE]
  /\ sinceBid = [id \in RoomIds |-> -1]
  /\ last = [ev |-> "run_simulation", s |-> "s1"]
  /\ \E n \in LineupSizes, target \in ChaseTargets : sim = StartInnings(n, target)

NextInnings ==
  \/ \E outcome \in Outcomes : Ball(outcome)
  \/ EndInnings

SpecInnings == InitInnings /\ [][NextInnings]_vars

\* The loop of simulateInnings runs on: nothing else runs in between
FairInnings == SpecInnings /\ WF_vars(NextInnings)

\* The teams of a tournament: between 2 and MaxTeams of them, named after
\* their keys unless the admin has given one the name of an earlier one.
\* Two teams come with lineups of any of TourneySizes, three with full
\* lineups, and four with lineups of a single player, whose innings are over
\* before a delivery is bowled, so that every match of theirs is tied
TourneyKeys == <<"T1", "T2", "T3", "T4">>
TourneySizes == {1, 2, LINEUP_SIZE}
TourneyNames(n) ==
  {[k \in 1..n |-> TourneyKeys[k]]}
    \cup {[k \in 1..n |-> IF k = b THEN TourneyKeys[a] ELSE TourneyKeys[k]] :
            a \in 1..n, b \in 2..n}
TourneyLineups(n) ==
  IF n = 2 THEN [1..n -> TourneySizes]
  ELSE IF n = 3 THEN {[k \in 1..n |-> LINEUP_SIZE]}
  ELSE {[k \in 1..n |-> 1]}
TourneyTeams ==
  UNION {{[k \in 1..n |-> TourneyTeam(TourneyKeys[k], names[k], sizes[k])] :
            names \in TourneyNames(n), sizes \in TourneyLineups(n)} :
         n \in 2..MaxTeams}

InitTournament ==
  /\ rooms = ("r1" :> JoinedRoom(NewRoom("s1", "pw"), "s2"))
  /\ socketRooms = [s \in Connections |-> IF s \in Sockets THEN <<"r1">> ELSE <<>>]
  /\ out = <<>>
  /\ budget0 = [id \in RoomIds |-> <<>>]
  /\ nFinal = [id \in RoomIds |-> [n \in LotNameSet |-> 0]]
  /\ squadOpen = [id \in RoomIds |-> FALSE]
  /\ sinceBid = [id \in RoomIds |-> -1]
  /\ last = [ev |-> "run_simulation", s |-> "s1"]
  /\ \E teams \in TourneyTeams : sim = StartTournament(teams)

NextTournament ==
  \/ LeagueMatch
  \/ NextRow
  \/ SortStandings
  \/ Qualifier1
  \/ Eliminator
  \/ Qualifier2
  \/ Final

SpecTournament == InitTournament /\ [][NextTournament]_vars

\* The rooms runSimulationLogic prepares the teams of: team A, taken or not,
\* has won the first players of a list of MaxRoster, and has submitted no
\* squad, or a lineup that is a run of that list, or one of a player not on
\* it; team B is not taken and has won a player
MaxRoster == 13
Player(k) == [name |-> k]
RosterOf(k) == [i \in 1..k |-> Player(i)]
LineupsOf(roster) ==
  {<<>>, <<Player(0)>>}
    \cup {SubSeq(roster, a, b) : a \in 1..Len(roster), b \in 1..Len(roster)}
PrepareRooms ==
  {[teams |-> <<[bidKey |-> "A", name |-> "A", isTaken |-> taken, roster |-> RosterOf(k)],
                [bidKey |-> "B", name |-> "B", isTaken |-> FALSE, roster |-> RosterOf(1)]>>,
    squads |-> squads] :
     taken \in BOOLEAN, k \in 0..MaxRoster,
     squads \in {[key \in {} |-> NoLineup]}
                  \cup {("A" :> Squad(l)) : l \in LineupsOf(RosterOf(MaxRoster))}}

\* runSimulationLogic: the teams are prepared and those without a player are
\* filtered out
PrepareTeams ==
  /\ sim.pc = "prepare"
  /\ ~PrepareThrows(sim.r)
  /\ sim' = [sim EXCEPT !.pc = "prepared",
                        !.tourneyTeams =
                           [i \in Eligible(sim.r) |-> PreparedLineup(sim.r, sim.r.teams[i])]]
  /\ SimOnly

InitPrepare ==
  /\ rooms = ("r1" :> JoinedRoom(NewRoom("s1", "pw"), "s2"))
  /\ socketRooms = [s \in Connections |-> IF s \in Sockets THEN <<"r1">> ELSE <<>>]
  /\ out = <<>>
  /\ budget0 = [id \in RoomIds |-> <<>>]
  /\ nFinal = [id \in RoomIds |-> [n \in LotNameSet |-> 0]]
  /\ squadOpen = [id \in RoomIds |-> FALSE]
  /\ sinceBid = [id \in RoomIds |-> -1]
  /\ last = [ev |-> "run_simulation", s |-> "s1"]
  /\ \E r \in PrepareRooms :
       sim = [pc |-> "prepare", r |-> r, tourneyTeams |-> [i \in {} |-> <<>>]]

NextPrepare == PrepareTeams

SpecPrepare == InitPrepare /\ [][NextPrepare]_vars

\* The auction of two lots with bids of any integer amount, with the event
\* that ran last on record: bids, timer expiries, the admin's finalize_sale
\* and the cooldown callbacks
NextBudget ==
  \/ \E s \in Sockets, t \in TeamInputs :
       /\ StartsBelow(s, MaxStarts)
       /\ start_auction(s, t, <<Lot(1, NoStatus), Lot(2, NoStatus)>>)
       /\ Event("start_auction", s)
  \/ \E s \in Sockets, k \in TeamKeys, a \in AnyAmounts : place_bid(s, k, a) /\ Event("place_bid", s)
  \/ \E s \in Sockets, u \in BOOLEAN : finalize_sale(s, u) /\ Event("finalize_sale", s)
  \/ \E id \in RoomIds, h \in 1..MaxHandles : Tick(id, h) /\ Event("tick", NULL)
  \/ \E id \in RoomIds : Cooldown(id) /\ Event("cooldown", NULL)

SpecBudget == Init /\ [][NextBudget]_vars

\* The auction of one lot and what a member of the room sends while it
\* runs, with the event that ran last on record: the admin s1 starts the
\* auction and finalizes, both bid the base price, and the member s2
\* publishes team lists, claims teams, submits squads of team B, closes its
\* connection and joins again
Member == "s2"
NextMembers ==
  \/ \E s \in Sockets, t \in TeamInputs :
       /\ StartsBelow(s, MaxStarts)
       /\ start_auction(s, t, <<Lot(1, NoStatus)>>)
       /\ Event("start_auction", s)
  \/ \E s \in Sockets, k \in TeamKeys : place_bid(s, k, BasePrice) /\ Event("place_bid", s)
  \/ \E s \in Sockets, u \in BOOLEAN : finalize_sale(s, u) /\ Event("finalize_sale", s)
  \/ \E id \in RoomIds : Cooldown(id) /\ Event("cooldown", NULL)
  \/ \E t \in LobbyLists(Member) : update_lobby_teams(Member, t) /\ Event("update_lobby_teams", Member)
  \/ \E k \in TeamKeys : claim_lobby_team(Member, k) /\ Event("claim_lobby_team", Member)
  \/ \E squad \in SquadInputs(Member, "B") :
       submit_squad(Member, "B", squad) /\ Event("submit_squad", Member)
  \/ join_room(Member, "r1", "pw")
  \/ disconnect(Member) /\ Event("disconnect", Member)

SpecMembers == Init /\ [][NextMembers]_vars

\* The auction events without pausing, with the admin free to start the
\* auction of a room once more at any point of a running or finished auction
NextRestart ==
  \/ \E s \in Sockets, t \in TeamInputs, q \in QueueInputs :
       StartsBelow(s, MaxStarts + 1) /\ start_auction(s, t, q) /\ UNCHANGED <<last, sim>>
  \/ \E s \in Sockets, k \in TeamKeys, a \in Amounts : place_bid(s, k, a) /\ UNCHANGED <<last, sim>>
  \/ \E s \in Sockets, u \in BOOLEAN : finalize_sale(s, u) /\ UNCHANGED <<last, sim>>
  \/ \E s \in Sockets : end_auction_trigger(s) /\ UNCHANGED <<last, sim>>
  \/ \E id \in RoomIds, h \in 1..MaxHandles : Tick(id, h) /\ UNCHANGED <<last, sim>>
  \/ \E id \in RoomIds : Cooldown(id) /\ UNCHANGED <<last, sim>>

SpecRestart == Init /\ [][NextRestart]_vars

----------------------------------------------------------------------------
(* Properties *)

RECURSIVE SumPrices(_)
SumPrices(roster) ==
  IF roster = <<>> THEN 0 ELSE roster[1].price + SumPrices(Tail(roster))

Started(id) == id \in DOMAIN rooms /\ rooms[id].starts > 0

\* C1: after start_auction, for every team of the room, the budget it was given
\* at start_auction minus its current budget equals the sum of the prices of
\* the entries of its roster.
C1_BudgetMatchesRoster ==
  \A id \in DOMAIN rooms :
    Started(id) =>
      \A i \in 1..Len(rooms[id].teams) :
        budget0[id][i] - rooms[id].teams[i].budget = SumPrices(rooms[id].teams[i].roster)

\* A team that has won two lots, one of them at a positive price
C1_Witness ==
  \E id \in DOMAIN rooms :
    /\ Started(id)
    /\ \E i \in 1..Len(rooms[id].teams) :
         /\ Len(rooms[id].teams[i].roster) >= 2
         /\ SumPrices(rooms[id].teams[i].roster) > 0

\* Number of entries for the lot named n in the rosters of the room
RosterCount(r, n) ==
  Cardinality({<<i, j>> \in (1..Len(r.teams)) \X (1..(MaxIndex + 1)) :
                 j <= Len(r.teams[i].roster) /\ r.teams[i].roster[j].name = n})

\* The step belongs to the auction run that was already going on
SameRun == ~Has(out', "auction_started")

\* C2: each lot is resolved at most once per auction run: no lot is in the
\* rosters more than once, sale_finalized is broadcast at most once per lot,
\* and a lot's status, once set, is never changed.
C2_ResolvedOnce ==
  /\ [](\A id \in DOMAIN rooms : \A n \in LotNameSet :
          RosterCount(rooms[id], n) <= 1 /\ nFinal[id][n] <= 1)
  /\ [][\A id \in DOMAIN rooms :
          SameRun =>
            \A i \in 1..Len(rooms[id].auctionQueue) :
              (/\ nFinal[id][rooms[id].auctionQueue[i].name] >= 1
               /\ rooms[id].auctionQueue[i].status # NoStatus) =>
                rooms'[id].auctionQueue[i].status = rooms[id].auctionQueue[i].status]_vars

\* The finalization guard of processSale is closed
Busy(id) == rooms[id].sellingInProgress \/ rooms[id].currentPlayer = NoPlayer

\* C3: a finalize request that arrives while a finalization is in progress,
\* or while the room has no current lot, changes no field of the room and
\* broadcasts nothing; and a sale is only ever performed by a request that
\* found the guard open.
C3_BusyFinalizeIsNoOp ==
  [][/\ \A s \in Sockets, u \in BOOLEAN :
          (isAdmin(s) /\ Busy(getRoomId(s)) /\ finalize_sale(s, u)) =>
            (rooms' = rooms /\ out' = <<>>)
     /\ \A id \in DOMAIN rooms :
          (Has(out', "sale_finalized") /\ out'[1].to = id) => ~Busy(id)]_vars

\* The checks of place_bid other than the comparison with the current bid
PassesOtherChecks(s, k, a) ==
  LET id == getRoomId(s) IN
    /\ id \in DOMAIN rooms
    /\ rooms[id].isActive
    /\ ~rooms[id].timerPaused
    /\ ~rooms[id].sellingInProgress
    /\ rooms[id].currentPlayer # NoPlayer
    /\ FindTeam(rooms[id].teams, k) # 0
    /\ LET t == rooms[id].teams[FindTeam(rooms[id].teams, k)] IN
         /\ t.ownerSocketId = s \/ t.ownerPlayerId = playerId(s)
         /\ a <= t.budget
    /\ rooms[id].currentBidder # k

Accepted(s, k, a) ==
  LET id == getRoomId(s) IN
    /\ rooms'[id].currentBid = a
    /\ rooms'[id].currentBidder = k
    /\ Has(out', "bid_update")

\* C4: a place_bid that passes every other check is rejected with the state
\* unchanged when a highest bidder exists and the amount is not above the
\* current bid, accepted when it is above; with no highest bidder it is
\* accepted when the amount is at least the base price of the lot.
C4_BidComparison ==
  [][\A s \in Sockets, k \in TeamKeys, a \in Amounts :
       (PassesOtherChecks(s, k, a) /\ place_bid(s, k, a)) =>
         LET r == rooms[getRoomId(s)] IN
           IF r.currentBidder # NULL
             THEN IF a <= r.currentBid
                    THEN rooms' = rooms /\ ~Has(out', "bid_update")
                    ELSE Accepted(s, k, a)
             ELSE a >= r.currentPlayer.basePrice => Accepted(s, k, a)]_vars

\* The last step was the countdown reaching zero and finalizing the lot
AutoFinalized == out # <<>> /\ out[1].ev = "timer_tick" /\ Has(out, "sale_finalized")

\* C5: right after an accepted bid the countdown is at its full duration, not
\* paused and running; and a lot with an accepted bid is auto-finalized only
\* after 10 unpaused ticks since the last accepted bid.
C5_BidRestartsCountdown ==
  \A id \in DOMAIN rooms :
    /\ (Has(out, "bid_update") /\ out[1].to = id) =>
         /\ rooms[id].timer = 10
         /\ ~rooms[id].timerPaused
         /\ rooms[id].timerInterval # 0
         /\ rooms[id].intervals = {rooms[id].timerInterval}
    /\ (AutoFinalized /\ out[1].to = id /\ sinceBid[id] >= 0) => sinceBid[id] >= 10

\* The countdown has run out on a lot that had an accepted bid, and the lot was sold
C5_Witness ==
  /\ AutoFinalized
  /\ sinceBid[out[1].to] = 10
  /\ \E i \in 1..Len(out) : out[i].ev = "sale_finalized" /\ ~out[i].arg.isUnsold

\* The step finalizes the current lot of room id by the timer or by the
\* admin's finalize_sale without isUnsold
FinalizesByBid(id) ==
  /\ ~Busy(id)
  /\ \/ \E h \in 1..MaxHandles : Tick(id, h)
     \/ \E s \in Sockets : getRoomId(s) = id /\ isAdmin(s) /\ finalize_sale(s, FALSE)
  /\ Has(out', "sale_finalized")

\* C6: a lot finalized while a highest bidder exists is appended to exactly
\* that team's roster at the current highest bid, the team's budget decreases
\* by that price and its player count grows by one, the lot is recorded as
\* sold, and every other team is left as it was.
C6_SoldToHighestBidder ==
  [][\A id \in DOMAIN rooms :
       (rooms[id].currentBidder # NULL /\ FinalizesByBid(id)) =>
         LET r  == rooms[id]
             rn == rooms'[id]
             ti == FindTeam(r.teams, r.currentBidder)
         IN /\ ti # 0
            /\ Len(rn.teams) = Len(r.teams)
            /\ Len(rn.teams[ti].roster) = Len(r.teams[ti].roster) + 1
            /\ SubSeq(rn.teams[ti].roster, 1, Len(r.teams[ti].roster)) = r.teams[ti].roster
            /\ rn.teams[ti].roster[Len(rn.teams[ti].roster)].name = r.currentPlayer.name
            /\ rn.teams[ti].roster[Len(rn.teams[ti].roster)].price = r.currentBid
            /\ rn.teams[ti].budget = r.teams[ti].budget - r.currentBid
            /\ rn.teams[ti].totalPlayers = r.teams[ti].totalPlayers + 1
            /\ rn.currentPlayer.status = "SOLD"
            /\ \A j \in 1..Len(r.teams) : j # ti => rn.teams[j] = r.teams[j]]_vars

\* The step finalizes the current lot of room id with no highest bidder: the
\* timer runs out with no accepted bid, or the admin sends finalize_sale with isUnsold
FinalizesUnsold(id) ==
  /\ ~Busy(id)
  /\ \/ rooms[id].currentBidder = NULL /\ \E h \in 1..MaxHandles : Tick(id, h)
     \/ \E s \in Sockets : getRoomId(s) = id /\ isAdmin(s) /\ finalize_sale(s, TRUE)
  /\ Has(out', "timer_ended")

\* C7: a lot finalized with no highest bidder is marked unsold, sale_finalized
\* carries isUnsold = true, and no team's roster, budget, spend or player
\* count changes.
C7_UnsoldChangesNoTeam ==
  [][\A id \in DOMAIN rooms :
       FinalizesUnsold(id) =>
         /\ rooms'[id].currentPlayer.status = "UNSOLD"
         /\ \E i \in 1..Len(out') : out'[i].ev = "sale_finalized" /\ out'[i].arg.isUnsold
         /\ \A i \in 1..Len(out') : out'[i].ev = "sale_finalized" => out'[i].arg.isUnsold
         /\ rooms'[id].teams = rooms[id].teams]_vars

\* The admin has declared unsold a lot that had an accepted bid, with the teams in place
C7_Witness ==
  \E id \in DOMAIN rooms :
    /\ out # <<>> /\ out[1].ev = "timer_ended" /\ out[1].to = id
    /\ \E i \in 1..Len(out) : out[i].ev = "sale_finalized" /\ out[i].arg.isUnsold
    /\ sinceBid[id] >= 0
    /\ Len(rooms[id].teams) = 2
    /\ rooms[id].currentBidder = NULL

\* C8: the current lot is null if and only if no auction is active or the
\* lot queue is exhausted.
C8_CurrentLotNullIffIdle ==
  \A id \in DOMAIN rooms :
    (rooms[id].currentPlayer = NoPlayer) <=>
      (~rooms[id].isActive \/ rooms[id].auctionIndex >= Len(rooms[id].auctionQueue))

\* C9: once open_squad_selection was emitted, no later bid is accepted, no lot
\* is opened, no countdown is started and no sale is finalized.
C9_NothingAfterSquadSelection ==
  [][\A id \in DOMAIN rooms :
       (squadOpen[id] /\ SameRun) =>
         /\ ~Has(out', "bid_update")
         /\ ~Has(out', "update_lot")
         /\ ~Has(out', "sale_finalized")
         /\ rooms'[id].intervals \subseteq rooms[id].intervals]_vars

\* C11: a place_bid received while the auction is inactive, the timer is
\* paused, a finalization is in progress or there is no current lot changes no
\* field of the room and sends nothing to anyone.
C11_OutOfPhaseBidIgnored ==
  [][\A s \in Sockets, k \in TeamKeys, a \in Amounts :
       LET id == getRoomId(s) IN
         (/\ id \in DOMAIN rooms
          /\ \/ ~rooms[id].isActive
             \/ rooms[id].timerPaused
             \/ rooms[id].sellingInProgress
             \/ rooms[id].currentPlayer = NoPlayer
          /\ last' = [ev |-> "place_bid", s |-> s]
          /\ place_bid(s, k, a)) =>
           (rooms' = rooms /\ out' = <<>>)]_vars

\* The owner of team A has sent a bid while the admin had the timer paused on
\* an open lot of the active auction, and nothing was sent
C11_Witness ==
  /\ last = [ev |-> "place_bid", s |-> "s1"]
  /\ out = <<>>
  /\ rooms["r1"].isActive /\ rooms["r1"].timerPaused
  /\ ~rooms["r1"].sellingInProgress
  /\ rooms["r1"].currentPlayer # NoPlayer /\ rooms["r1"].currentPlayer.status = NoStatus
  /\ rooms["r1"].currentBidder = "B"

\* C12 as stated: every accepted bid for a team was sent by the team's bound
\* owner connection or by a connection with the durable identity of the
\* team's owner; a bid for a team from any other connection changes no room
\* state and is answered with an error sent to the requester only.
C12_UnauthorizedBidGetsError ==
  [][\A s \in Sockets, k \in TeamKeys, a \in Amounts :
       LET id == getRoomId(s) IN
         (id \in DOMAIN rooms /\ last' = [ev |-> "place_bid", s |-> s] /\ place_bid(s, k, a)) =>
           LET r  == rooms[id]
               ti == FindTeam(r.teams, k)
               authorized == /\ ti # 0
                             /\ \/ r.teams[ti].ownerSocketId = s
                                \/ r.teams[ti].ownerPlayerId = playerId(s)
           IN /\ (Has(out', "bid_update") \/ rooms'[id].currentBidder # r.currentBidder) => authorized
              /\ (ti # 0 /\ ~authorized) =>
                   /\ rooms' = rooms
                   /\ out' = <<Msg(s, "error_message", "Authorization Failed")>>]_vars

\* C12 as amended: every accepted bid for a team was sent by the team's bound
\* owner connection or by a connection with the durable identity of the
\* team's owner; a bid from any other connection changes no room state and
\* sends nothing to anyone but the requester, and when it names a team of the
\* room during the bidding phase the requester gets the authorization error.
C12_OnlyOwnersBid ==
  [][\A s \in Sockets, k \in TeamKeys, a \in Amounts :
       LET id == getRoomId(s) IN
         (id \in DOMAIN rooms /\ last' = [ev |-> "place_bid", s |-> s] /\ place_bid(s, k, a)) =>
           LET r  == rooms[id]
               ti == FindTeam(r.teams, k)
               authorized == /\ ti # 0
                             /\ \/ r.teams[ti].ownerSocketId = s
                                \/ r.teams[ti].ownerPlayerId = playerId(s)
               inPhase == /\ r.isActive /\ ~r.timerPaused /\ ~r.sellingInProgress
                          /\ r.currentPlayer # NoPlayer
           IN /\ (Has(out', "bid_update") \/ rooms'[id].currentBidder # r.currentBidder) => authorized
              /\ ~authorized =>
                   /\ rooms' = rooms
                   /\ \A i \in 1..Len(out') : out'[i].to = s
              /\ (~authorized /\ inPhase /\ ti # 0) =>
                   out' = <<Msg(s, "error_message", "Authorization Failed")>>]_vars

\* Team B's owner has bid for it from a new connection and was accepted, and
\* then the owner of team A has bid for team B and got the authorization error
C12_Witness ==
  /\ out = <<Msg("s1", "error_message", "Authorization Failed")>>
  /\ rooms["r1"].currentBidder = "B"
  /\ rooms["r1"].teams[FindTeam(rooms["r1"].teams, "B")].ownerSocketId = "s2"

\* C13: a place_bid rejected as a validation error (over the team's budget,
\* not above the current highest bid, or by the team that is already the
\* highest bidder) leaves every field of the room unchanged, the team's
\* owner-connection binding included.
C13_RejectedBidChangesNothing ==
  [][\A s \in Sockets, k \in TeamKeys, a \in Amounts :
       LET id == getRoomId(s) IN
         (/\ id \in DOMAIN rooms
          /\ last' = [ev |-> "place_bid", s |-> s]
          /\ place_bid(s, k, a)
          /\ ~BidOutOfPhase(rooms[id])
          /\ FindTeam(rooms[id].teams, k) # 0
          /\ OwnsTeam(rooms[id].teams[FindTeam(rooms[id].teams, k)], s)
          /\ \/ rooms[id].currentBidder = k
             \/ rooms[id].teams[FindTeam(rooms[id].teams, k)].budget < a
             \/ (a <= rooms[id].currentBid /\ rooms[id].currentBidder # NULL)) =>
           rooms' = rooms]_vars

\* C14: while the timer is paused the countdown callback changes nothing and
\* broadcasts nothing, the countdown value never decreases and a sale is
\* finalized only on the admin's request; pausing and resuming leave the
\* countdown value and the running interval as they were, and a callback that
\* runs unpaused counts down by one from the value it finds.
C14_PausedCountdownStands ==
  [][\A id \in DOMAIN rooms :
       /\ (rooms[id].timerPaused /\ last'.ev = "tick") => (rooms' = rooms /\ out' = <<>>)
       /\ rooms[id].timerPaused =>
            /\ rooms'[id].timer >= rooms[id].timer
            /\ Has(out', "sale_finalized") => last'.ev = "finalize_sale"
       /\ (~rooms[id].timerPaused /\ last'.ev = "tick") => rooms'[id].timer = rooms[id].timer - 1
       /\ (last'.ev = "toggle_timer" /\ isAdmin(last'.s) /\ id = getRoomId(last'.s)) =>
            /\ rooms'[id].timerPaused = ~rooms[id].timerPaused
            /\ rooms'[id].timer = rooms[id].timer
            /\ rooms'[id].timerInterval = rooms[id].timerInterval
            /\ rooms'[id].intervals = rooms[id].intervals]_vars

\* The countdown callback has run on a timer paused at 7 and left it there
C14_Witness ==
  /\ last.ev = "tick" /\ out = <<>>
  /\ rooms["r1"].timerPaused /\ rooms["r1"].timer = 7
  /\ rooms["r1"].timerInterval # 0
  /\ rooms["r1"].intervals = {rooms["r1"].timerInterval}

\* C15: a room has at most one live countdown callback, the one whose handle
\* it holds; stopping the timer when none is running changes nothing, and
\* stopping it twice is the same as stopping it once.
C15_OneCountdown ==
  \A id \in DOMAIN rooms :
    LET c == [r |-> rooms[id], out |-> <<>>] IN
      /\ Cardinality(rooms[id].intervals) <= 1
      /\ rooms[id].intervals = IF rooms[id].timerInterval = 0 THEN {} ELSE {rooms[id].timerInterval}
      /\ rooms[id].timerInterval = 0 => stopTimer(c) = c
      /\ stopTimer(stopTimer(c)) = stopTimer(c)
      /\ stopTimer(c).r.intervals = {}

\* In the second auction of the room, after a lot of it was finalized and the
\* next one opened, an accepted bid has restarted the countdown
C15_Witness ==
  /\ rooms["r1"].starts = 2
  /\ \E n \in LotNameSet : nFinal["r1"][n] >= 1
  /\ Has(out, "bid_update")
  /\ rooms["r1"].timerInterval # 0
  /\ rooms["r1"].intervals = {rooms["r1"].timerInterval}

\* C16: after start_auction by the admin every team has an empty roster, zero
\* spend and zero player count, the room is active, and the current lot is the
\* first lot of the supplied queue that carries no terminal status.
C16_StartOpensFirstFreshLot ==
  [][\A id \in DOMAIN rooms :
       (Has(out', "auction_started") /\ out'[1].to = id) =>
         LET rn == rooms'[id]
             fresh == {i \in 1..Len(rn.auctionQueue) : rn.auctionQueue[i].status = NoStatus}
         IN /\ \A i \in 1..Len(rn.teams) :
                 /\ rn.teams[i].roster = <<>>
                 /\ rn.teams[i].totalSpent = 0
                 /\ rn.teams[i].totalPlayers = 0
            /\ rn.isActive
            /\ fresh # {} =>
                 LET f == CHOOSE i \in fresh : \A j \in fresh : i <= j
                 IN rn.currentPlayer = rn.auctionQueue[f] /\ rn.cpRef = f]_vars

\* The events only the admin's connection may send
AdminEvents ==
  {"start_auction", "toggle_timer", "finalize_sale", "end_auction_trigger",
   "run_simulation", "admin_reclaim_decision", "admin_rename_team"}

\* Connection s is not the admin connection of the room it acts on
NotAdminConnection(s) ==
  \/ getRoomId(s) \notin DOMAIN rooms
  \/ rooms[getRoomId(s)].adminSocketId # s

\* C17: start_auction, toggle_timer, finalize_sale, end_auction_trigger,
\* run_simulation, admin_reclaim_decision and admin_rename_team sent by a
\* connection that is not the admin connection of its room leave the state of
\* the rooms as it was and send nothing to a room.
C17_NonAdminChangesNothing ==
  [][(last'.ev \in AdminEvents /\ last'.s \in Sockets /\ NotAdminConnection(last'.s))
       => /\ rooms' = rooms
          /\ \A i \in 1..Len(out') : out'[i].to \notin RoomIds]_vars

\* C17 witness: the connection that is not the admin has just asked to
\* finalize the sale of a lot that is up with a bid on it, and the lot is
\* still up
C17_Witness ==
  /\ last = [ev |-> "finalize_sale", s |-> "s2"]
  /\ rooms["r1"].adminSocketId = "s1"
  /\ rooms["r1"].isActive
  /\ rooms["r1"].currentPlayer # NoPlayer
  /\ rooms["r1"].currentBidder # NULL
  /\ ~rooms["r1"].sellingInProgress

\* The step is a join_room of connection s that was let into room id
JoinedNow(s, id) ==
  /\ last' = [ev |-> "join_room", s |-> s]
  /\ \E i \in 1..Len(out') : out'[i] = Msg(s, "room_joined", rooms[id].adminPlayerId = playerId(s))

\* C18: after a successful join_room by a connection whose durable identity
\* is the recorded admin identity of the room, that connection is the admin
\* connection of the room and the connection bound before no longer passes
\* the admin check; a joining connection whose identity is the durable owner
\* of a team is that team's owner connection afterwards. Of two connections
\* with the same identity the one that joined last holds the bindings.
C18_JoinRebinds ==
  [][\A s \in Connections, id \in RoomIds :
       JoinedNow(s, id) =>
         /\ rooms[id].adminPlayerId = playerId(s) =>
              /\ rooms'[id].adminSocketId = s
              /\ \A o \in Connections \ {s} : rooms[id].adminSocketId = o => ~isAdmin(o)'
         /\ \A i \in 1..Len(rooms[id].teams) :
              rooms[id].teams[i].ownerPlayerId = playerId(s) =>
                rooms'[id].teams[i].ownerSocketId = s
         /\ \A o \in Connections \ {s} :
              playerId(o) = playerId(s) =>
                /\ rooms'[id].adminPlayerId = playerId(s) => rooms'[id].adminSocketId # o
                /\ \A i \in 1..Len(rooms'[id].teams) :
                     rooms'[id].teams[i].ownerPlayerId = playerId(s) =>
                       rooms'[id].teams[i].ownerSocketId # o]_vars

\* No identity owns two teams of room id
OneTeamEach(id) ==
  \A i, j \in 1..Len(rooms[id].teams) :
    (rooms[id].teams[i].ownerPlayerId # NULL /\
     rooms[id].teams[i].ownerPlayerId = rooms[id].teams[j].ownerPlayerId) => i = j

\* C18 for the rooms in which no identity owns two teams
C18_JoinRebindsSoleTeam ==
  [][\A s \in Connections, id \in RoomIds :
       (JoinedNow(s, id) /\ OneTeamEach(id)) =>
         /\ rooms[id].adminPlayerId = playerId(s) =>
              /\ rooms'[id].adminSocketId = s
              /\ \A o \in Connections \ {s} : rooms[id].adminSocketId = o => ~isAdmin(o)'
         /\ \A i \in 1..Len(rooms[id].teams) :
              rooms[id].teams[i].ownerPlayerId = playerId(s) =>
                rooms'[id].teams[i].ownerSocketId = s
         /\ \A o \in Connections \ {s} :
              playerId(o) = playerId(s) =>
                /\ rooms'[id].adminPlayerId = playerId(s) => rooms'[id].adminSocketId # o
                /\ \A i \in 1..Len(rooms'[id].teams) :
                     rooms'[id].teams[i].ownerPlayerId = playerId(s) =>
                       rooms'[id].teams[i].ownerSocketId # o]_vars

\* The step is an admin_reclaim_decision that approved nothing
NothingApproved ==
  /\ last'.ev = "admin_reclaim_decision"
  /\ \A i \in 1..Len(out') : out'[i].ev # "team_claim_success"

\* The events that leave the owner of taken team t alone
KeepsOwner(t) ==
  \/ last'.ev = "request_reclaim_manual"
  \/ NothingApproved
  \/ /\ last'.ev \in {"claim_lobby_team", "reclaim_team"}
     /\ playerId(last'.s) # t.ownerPlayerId

\* C19: the durable owner of a team that is taken becomes a different
\* identity only in an admin_reclaim_decision with approved = true sent by
\* the admin connection; request_reclaim_manual, a denial, and
\* claim_lobby_team or reclaim_team of a different identity change neither
\* the durable owner nor the owner connection of the team.
C19_OwnerChangesOnlyByApproval ==
  [][\A id \in RoomIds : \A i \in 1..Len(rooms[id].teams) :
       LET t == rooms[id].teams[i]
           j == FindTeam(rooms'[id].teams, t.bidKey)
       IN (t.isTaken /\ t.ownerPlayerId # NULL) =>
            /\ (j # 0 /\ rooms'[id].teams[j].ownerPlayerId \notin {t.ownerPlayerId, NULL}) =>
                 /\ last'.ev = "admin_reclaim_decision"
                 /\ rooms[id].adminSocketId = last'.s
                 /\ ~NothingApproved
            /\ KeepsOwner(t) =>
                 /\ rooms'[id].teams[i].ownerPlayerId = t.ownerPlayerId
                 /\ rooms'[id].teams[i].ownerSocketId = t.ownerSocketId]_vars

\* C19, its second half alone: requests, denials and the claims of a
\* different identity leave the owner of a taken team alone
C19_RequestsAndDenialsKeepOwner ==
  [][\A id \in RoomIds : \A i \in 1..Len(rooms[id].teams) :
       LET t == rooms[id].teams[i]
       IN (t.isTaken /\ t.ownerPlayerId # NULL /\ KeepsOwner(t)) =>
            /\ rooms'[id].teams[i].ownerPlayerId = t.ownerPlayerId
            /\ rooms'[id].teams[i].ownerSocketId = t.ownerSocketId]_vars

\* The event of the step is handled for room id: a callback belongs to the
\* room that installed it, create_room and join_room name their room in the
\* request, and every other event is handled for the room getRoomId gives
HandledFor(id) ==
  IF last'.ev \in {"tick", "cooldown"} THEN id = last'.s
  ELSE IF last'.ev \in {"create_room", "join_room"} THEN id \in TwoRooms
  ELSE id = getRoomId(last'.s)

\* The step leaves the state of room id as it was
SameRoom(id) ==
  IF id \in DOMAIN rooms
    THEN id \in DOMAIN rooms' /\ rooms'[id] = rooms[id]
    ELSE id \notin DOMAIN rooms'

\* The step broadcasts nothing to room id
NoBroadcast(id) == \A i \in 1..Len(out') : out'[i].to # id

\* C20: with two or more rooms, an event handled for one room, its timer
\* ticks and cooldown callbacks and the events of a connection that is in
\* more than one room included, leaves the state of every other room
\* unchanged and broadcasts nothing to it.
C20_RoomsIsolated ==
  [][Cardinality(DOMAIN rooms) >= 2 =>
       \E id \in TwoRooms \cup {NULL} :
         /\ HandledFor(id)
         /\ \A other \in TwoRooms \ {id} : SameRoom(other) /\ NoBroadcast(other)]_vars

\* C20, its state half alone: the state of every other room is unchanged
C20_RoomStatesIsolated ==
  [][Cardinality(DOMAIN rooms) >= 2 =>
       \E id \in TwoRooms \cup {NULL} :
         /\ HandledFor(id)
         /\ \A other \in TwoRooms \ {id} : SameRoom(other)]_vars

\* C20 for every event but a decision on a reclaim request
C20_RoomsIsolatedButDecisions ==
  [][(Cardinality(DOMAIN rooms) >= 2 /\ last'.ev # "admin_reclaim_decision") =>
       \E id \in TwoRooms \cup {NULL} :
         /\ HandledFor(id)
         /\ \A other \in TwoRooms \ {id} : SameRoom(other) /\ NoBroadcast(other)]_vars

\* The step is a run_simulation sent by the admin connection of room id
SimulationRunBy(id) ==
  /\ last'.ev = "run_simulation"
  /\ last'.s \in Connections
  /\ getRoomId(last'.s) = id
  /\ rooms[id].adminSocketId = last'.s

\* The teams of room r that take part: taken, with a prepared lineup that is not empty
TakingPart(r) ==
  {i \in Eligible(r) : r.teams[i].bidKey \in DOMAIN r.squads => ~r.squads[r.teams[i].bidKey].undefined}

\* The step emits ev to room id
Emits(id, ev) == \E i \in 1..Len(out') : out'[i].to = id /\ out'[i].ev = ev

\* C21: run_simulation with fewer than two eligible teams emits
\* simulation_error and no tournament_results, runs no match and changes no
\* room state.
C21_FewEligibleGivesError ==
  [][\A id \in DOMAIN rooms :
       (SimulationRunBy(id) /\ Cardinality(TakingPart(rooms[id])) < 2) =>
         /\ Emits(id, "simulation_error")
         /\ \A i \in 1..Len(out') : out'[i].ev # "tournament_results"
         /\ rooms' = rooms
         /\ sim' = sim]_vars

\* C21 for the rooms in which every squad submitted carries a lineup
C21_FewEligibleGivesErrorWithLineups ==
  [][\A id \in DOMAIN rooms :
       (SimulationRunBy(id) /\ ~PrepareThrows(rooms[id]) /\ Cardinality(TakingPart(rooms[id])) < 2) =>
         /\ Emits(id, "simulation_error")
         /\ \A i \in 1..Len(out') : out'[i].ev # "tournament_results"
         /\ rooms' = rooms
         /\ sim' = sim]_vars

\* C22: running a simulation, once or again, leaves the live state of the
\* room as it was: the team list and its order, the budget, roster,
\* ownership and name of every team, the submitted squads, the lot queue
\* and the auction fields.
C22_SimulationChangesNoRoom ==
  [][\A id \in DOMAIN rooms :
       SimulationRunBy(id) => id \in DOMAIN rooms' /\ rooms'[id] = rooms[id]]_vars

\* C22 for the rooms in which every squad submitted carries a lineup
C22_SimulationChangesNoRoomWithLineups ==
  [][\A id \in DOMAIN rooms :
       (SimulationRunBy(id) /\ ~PrepareThrows(rooms[id])) =>
         id \in DOMAIN rooms' /\ rooms'[id] = rooms[id]]_vars

\* The step is a delivery of the innings
Bowled == sim.pc = "ball" /\ sim'.pc = "ball" /\ sim'.balls = sim.balls + 1

\* The batting side is all out
AllOut(v) == v.wickets = maxWickets(v)

\* C28: every innings terminates, for lineups of 1 to 11 players, with at
\* most 120 deliveries and at most (lineup size - 1) wickets; it ends exactly
\* when 120 deliveries have been bowled, the batting side is all out or the
\* score of a chasing side exceeds its target; and the batter who faces a
\* delivery is in and not out.
C28_InningsEndsExactly ==
  /\ <>(sim.pc = "ended")
  /\ [](sim.balls <= INNINGS_BALLS /\ sim.wickets <= maxWickets(sim))
  /\ [](sim.pc = "ended" =>
          \/ sim.balls = INNINGS_BALLS
          \/ AllOut(sim)
          \/ sim.target # NoTarget /\ sim.score > sim.target)
  /\ [][Bowled =>
          /\ sim.balls < INNINGS_BALLS
          /\ ~AllOut(sim)
          /\ ~(sim.target # NoTarget /\ sim.score > sim.target)
          /\ sim.strikerIdx \in DOMAIN sim.status
          /\ sim.status[sim.strikerIdx] = "not out"]_vars

\* C28 with a chase counted as won only when the target is not 0
C28_InningsEndsUnlessTargetZero ==
  /\ <>(sim.pc = "ended")
  /\ [](sim.balls <= INNINGS_BALLS /\ sim.wickets <= maxWickets(sim))
  /\ [](sim.pc = "ended" =>
          \/ sim.balls = INNINGS_BALLS
          \/ AllOut(sim)
          \/ Truthy(sim.target) /\ sim.score > sim.target)
  /\ [][Bowled =>
          /\ sim.balls < INNINGS_BALLS
          /\ ~AllOut(sim)
          /\ ~(Truthy(sim.target) /\ sim.score > sim.target)
          /\ sim.strikerIdx \in DOMAIN sim.status
          /\ sim.status[sim.strikerIdx] = "not out"]_vars

\* The tournament has got past its league stage
LeagueOver == sim.pc \in {"q1", "elim", "q2", "final", "done"}

\* The league matches in which the teams with ids a and b met
Meetings(a, b) ==
  {k \in DOMAIN sim.leagueMatches :
     {sim.leagueMatches[k].a, sim.leagueMatches[k].b} = {a, b}}

\* C23: for n teams the league stage plays exactly n(n-1)/2 matches, every
\* unordered pair of distinct teams meets exactly once and no team plays
\* itself, whatever the outcomes of the matches
C23_RoundRobin ==
  sim.pc \in {"league", "q1", "elim", "q2", "final", "done"} =>
    LET n == Len(sim.teams)
        ids == {sim.teams[k].id : k \in 1..n}
    IN /\ \A k \in DOMAIN sim.leagueMatches :
            /\ sim.leagueMatches[k].a # sim.leagueMatches[k].b
            /\ {sim.leagueMatches[k].a, sim.leagueMatches[k].b} \subseteq ids
       /\ \A a \in ids, b \in ids : Cardinality(Meetings(a, b)) <= 1
       /\ LeagueOver =>
            /\ 2 * Len(sim.leagueMatches) = n * (n - 1)
            /\ \A a \in ids : \A b \in ids \ {a} : Cardinality(Meetings(a, b)) = 1

\* C23: a league of four teams, two of them of the same name, is over
C23_Witness ==
  /\ LeagueOver
  /\ Len(sim.teams) = MaxTeams
  /\ Len(sim.leagueMatches) = 6
  /\ \E k \in 1..3 : sim.teams[k].name = sim.teams[k + 1].name
  /\ \E k \in 1..6 : sim.leagueMatches[k].win = sim.leagueMatches[k].b

\* The teams are in the order of the standings: by points, and by net run
\* rate among teams of equal points
Ranked(teams) ==
  \A m \in 1..Len(teams), k \in 1..Len(teams) :
    m < k =>
      \/ teams[m].stats.pts > teams[k].stats.pts
      \/ /\ teams[m].stats.pts = teams[k].stats.pts
         /\ NrrNum(teams[m].stats) * NrrDen(teams[k].stats)
              >= NrrNum(teams[k].stats) * NrrDen(teams[m].stats)

\* The last knockout match played
TheFinal == sim.playoffs[Len(sim.playoffs)]

\* C24: when the simulation returns, four teams have played exactly the four
\* knockout matches Qualifier 1, Eliminator, Qualifier 2 and Final, two or
\* three teams exactly one, a Final between the two teams at the top of the
\* standings; the champion is the winner of the Final, the runner-up the
\* other finalist, and the champion is the name of one of the teams
C24_Knockout ==
  sim.pc = "done" =>
    LET n == Len(sim.teams) IN
      /\ n = 4 => [k \in 1..Len(sim.playoffs) |-> sim.playoffs[k].type]
                    = <<"Qualifier 1", "Eliminator", "Qualifier 2", "FINAL">>
      /\ n \in {2, 3} =>
           /\ [k \in 1..Len(sim.playoffs) |-> sim.playoffs[k].type] = <<"FINAL">>
           /\ Ranked(sim.teams)
           /\ TheFinal.a = sim.teams[1].id /\ TheFinal.b = sim.teams[2].id
      /\ sim.winner = TheFinal.winnerName
      /\ TheFinal.win \in {TheFinal.a, TheFinal.b}
      /\ TheFinal.win = TheFinal.a => sim.winner = TheFinal.t1 /\ sim.runnerUp = TheFinal.t2
      /\ TheFinal.win = TheFinal.b => sim.winner = TheFinal.t2 /\ sim.runnerUp = TheFinal.t1
      /\ \E k \in 1..n : sim.winner = sim.teams[k].name

\* C24: three teams have played their Final, won by the team that was second
\* in the standings, on fewer points than the first
C24_Witness ==
  /\ sim.pc = "done"
  /\ Len(sim.teams) = 3
  /\ Len(sim.playoffs) = 1
  /\ sim.teams[1].stats.pts > sim.teams[2].stats.pts
  /\ TheFinal.win = sim.teams[2].id
  /\ sim.winner = sim.teams[2].name
  /\ sim.runnerUp = sim.teams[1].name

\* C24: four teams have played their four knockout matches
C24_WitnessFour ==
  /\ sim.pc = "done"
  /\ Len(sim.teams) = 4
  /\ Len(sim.playoffs) = 4
  /\ sim.winner = TheFinal.winnerName

\* The team of a match that did not win it
LoserOf(m) == IF m.win = m.a THEN m.b ELSE m.a

\* C25: with four or more teams, renamed to equal names or not, Qualifier 2
\* is played between the loser of Qualifier 1 and the winner of the
\* Eliminator, the Final between the winner of Qualifier 1 and the winner of
\* Qualifier 2, and the two finalists are distinct teams
C25_Bracket ==
  (sim.pc = "done" /\ Len(sim.teams) >= 4) =>
    LET q1 == sim.playoffs[1]
        elim == sim.playoffs[2]
        q2 == sim.playoffs[3]
        final == sim.playoffs[4]
    IN /\ {q2.a, q2.b} = {LoserOf(q1), elim.win}
       /\ {final.a, final.b} = {q1.win, q2.win}
       /\ final.a # final.b

\* No two teams of the tournament have the same name
DistinctNames ==
  \A m \in 1..Len(sim.teams), k \in 1..Len(sim.teams) :
    sim.teams[m].name = sim.teams[k].name => m = k

\* C25: the bracket is the standard one when no two teams have the same name
C25_BracketOfDistinctNames ==
  (sim.pc = "done" /\ Len(sim.teams) >= 4 /\ DistinctNames) =>
    LET q1 == sim.playoffs[1]
        elim == sim.playoffs[2]
        q2 == sim.playoffs[3]
        final == sim.playoffs[4]
    IN /\ q1.a # q1.b /\ elim.a # elim.b
       /\ {q2.a, q2.b} = {LoserOf(q1), elim.win}
       /\ {final.a, final.b} = {q1.win, q2.win}
       /\ final.a # final.b

\* A match is played in this step, and m is what playMatch returns for it
MatchPlayed(m) ==
  \/ /\ Len(sim'.leagueMatches) = Len(sim.leagueMatches) + 1
     /\ m = sim'.leagueMatches[Len(sim'.leagueMatches)]
  \/ /\ Len(sim'.playoffs) = Len(sim.playoffs) + 1
     /\ m = sim'.playoffs[Len(sim'.playoffs)]

\* The league table of the team with the given id
StatsOf(teams, id) == teams[CHOOSE k \in 1..Len(teams) : teams[k].id = id].stats

\* The matches a step can have played
MatchesNow == {sim'.leagueMatches[k] : k \in DOMAIN sim'.leagueMatches}
                \cup {sim'.playoffs[k] : k \in DOMAIN sim'.playoffs}

\* C26: in every match the side with strictly more runs wins, the side
\* batting second when its total exceeds the first side's and the side
\* batting first when its total is the higher one; in a league match the
\* winner gets 2 points and a win, the other team a loss, both a played
\* match, and nobody else anything
C26_WinnerAndPoints ==
  [][\A m \in MatchesNow :
       MatchPlayed(m) =>
         /\ sim'.i2.score > sim'.i1.score => m.win = m.b /\ m.winnerName = m.t2
         /\ sim'.i1.score > sim'.i2.score => m.win = m.a /\ m.winnerName = m.t1
         /\ m.win \in {m.a, m.b}
         /\ m.type = "League" =>
              LET was(id) == StatsOf(sim.teams, id)
                  is(id) == StatsOf(sim'.teams, id)
                  lose == IF m.win = m.a THEN m.b ELSE m.a
              IN /\ m.a # m.b
                 /\ is(m.win).pts = was(m.win).pts + 2
                 /\ is(m.win).w = was(m.win).w + 1
                 /\ is(m.win).l = was(m.win).l
                 /\ is(m.win).p = was(m.win).p + 1
                 /\ is(lose).pts = was(lose).pts
                 /\ is(lose).w = was(lose).w
                 /\ is(lose).l = was(lose).l + 1
                 /\ is(lose).p = was(lose).p + 1
                 /\ \A k \in 1..Len(sim.teams) :
                      sim.teams[k].id \notin {m.a, m.b} => sim'.teams[k] = sim.teams[k]
         /\ m.type # "League" => sim'.teams = sim.teams]_vars

\* The first league match has just been played, with these totals
FirstLeagueMatch(s1, s2) ==
  /\ sim.pc = "league"
  /\ Len(sim.leagueMatches) = 1
  /\ sim.i1.score = s1 /\ sim.i2.score = s2

\* C26: the side batting second has won a league match by passing the total
\* of the first, and has 2 points for it
C26_Witness ==
  /\ FirstLeagueMatch(1, 2)
  /\ sim.leagueMatches[1].win = sim.leagueMatches[1].b
  /\ sim.teams[2].stats.pts = 2 /\ sim.teams[1].stats.l = 1

\* C26: a tied league match has gone to the side batting first
C26_WitnessTieFirst ==
  /\ FirstLeagueMatch(1, 1)
  /\ sim.leagueMatches[1].win = sim.leagueMatches[1].a

\* C26: a tied league match has gone to the side batting second
C26_WitnessTieSecond ==
  /\ FirstLeagueMatch(1, 1)
  /\ sim.leagueMatches[1].win = sim.leagueMatches[1].b

\* The innings ran to the end of its deliveries
RanItsOvers(inn) == inn.balls = INNINGS_BALLS

\* The innings of a lineup of n players ended all out before that
EndedAllOut(inn, n) == n > 1 /\ inn.wickets = n - 1 /\ inn.balls < INNINGS_BALLS

\* The deliveries that count for an innings in the net run rate: 20 overs
\* for an innings that ran its overs, the overs it took for one all out
OversDue(inn) == IF RanItsOvers(inn) THEN FULL_OVERS * OVER_BALLS ELSE inn.balls

\* The size of the lineup of the team with the given id
SizeOf(teams, id) == teams[CHOOSE k \in 1..Len(teams) : teams[k].id = id].size

\* The overs of innings inn, batted by the team with id bat against the one
\* with id bowl, are added as due to the overs faced of the one and to the
\* overs bowled of the other
OversAddedAsDue(bat, bowl, inn) ==
  (RanItsOvers(inn) \/ EndedAllOut(inn, SizeOf(sim.teams, bat))) =>
    /\ StatsOf(sim'.teams, bat).oversFaced = StatsOf(sim.teams, bat).oversFaced + OversDue(inn)
    /\ StatsOf(sim'.teams, bowl).oversBowled = StatsOf(sim.teams, bowl).oversBowled + OversDue(inn)

\* The two teams of a league match get mirrored overs
OversMirrored(a, b) ==
  /\ StatsOf(sim'.teams, a).oversFaced - StatsOf(sim.teams, a).oversFaced
       = StatsOf(sim'.teams, b).oversBowled - StatsOf(sim.teams, b).oversBowled
  /\ StatsOf(sim'.teams, b).oversFaced - StatsOf(sim.teams, b).oversFaced
       = StatsOf(sim'.teams, a).oversBowled - StatsOf(sim.teams, a).oversBowled

\* C27: in every league match, for both innings, the overs added to the
\* overs faced of the batting team and the overs bowled of the fielding team
\* are 20 for an innings that ran to the end of its 120 deliveries and
\* balls / 6 for an innings that ended all out, and the two teams get
\* mirrored values
C27_OversOfBothInnings ==
  [][\A m \in MatchesNow :
       (MatchPlayed(m) /\ m.type = "League") =>
         /\ OversAddedAsDue(m.a, m.b, sim'.i1)
         /\ OversAddedAsDue(m.b, m.a, sim'.i2)
         /\ OversMirrored(m.a, m.b)]_vars

\* C27: the overs of the second innings are added as due, the first innings
\* counts as 20 overs however it ended, and the two teams get mirrored values
C27_OversOfSecondInnings ==
  [][\A m \in MatchesNow :
       (MatchPlayed(m) /\ m.type = "League") =>
         /\ StatsOf(sim'.teams, m.a).oversFaced
              = StatsOf(sim.teams, m.a).oversFaced + FULL_OVERS * OVER_BALLS
         /\ OversAddedAsDue(m.b, m.a, sim'.i2)
         /\ StatsOf(sim'.teams, m.b).oversFaced
              = StatsOf(sim.teams, m.b).oversFaced + sim'.i2.balls
         /\ OversMirrored(m.a, m.b)]_vars

\* The lineup team t of room r has submitted, none without a squad
SubmittedLineup(r, t) ==
  IF t.bidKey \in DOMAIN r.squads THEN r.squads[t.bidKey].playing11 ELSE <<>>

\* Player i of the roster is not in the lineup, by name
NotYetIn(lineup, roster, i) == \A k \in 1..Len(lineup) : lineup[k].name # roster[i].name

\* prepared is lineup, extended when it is short of 11 by the players of
\* the roster that are not in it, in the order of the roster, until it has
\* 11 players or the roster has no more
ExtendedFromRoster(prepared, lineup, roster) ==
  LET free == {i \in 1..Len(roster) : NotYetIn(lineup, roster, i)}
      want == IF Len(lineup) < LINEUP_SIZE THEN LINEUP_SIZE - Len(lineup) ELSE 0
      added == IF Cardinality(free) < want THEN Cardinality(free) ELSE want
  IN /\ Len(prepared) = Len(lineup) + added
     /\ \A k \in 1..Len(lineup) : prepared[k] = lineup[k]
     /\ \A j \in 1..added :
          \E i \in free :
            /\ Cardinality({m \in free : m <= i}) = j
            /\ prepared[Len(lineup) + j] = roster[i]

\* C29: the prepared lineup of every taken team is its submitted lineup
\* extended from its roster up to 11 players, and a team takes part in the
\* tournament exactly if it is taken and its prepared lineup is not empty
C29_PreparedLineups ==
  sim.pc = "prepared" =>
    \A i \in 1..Len(sim.r.teams) :
      LET t == sim.r.teams[i] IN
        /\ i \in DOMAIN sim.tourneyTeams =>
             ExtendedFromRoster(sim.tourneyTeams[i], SubmittedLineup(sim.r, t), t.roster)
        /\ i \in DOMAIN sim.tourneyTeams <=>
             /\ t.isTaken
             /\ ~ExtendedFromRoster(<<>>, SubmittedLineup(sim.r, t), t.roster)

\* C29: a taken team that has submitted two of the five players it has won
\* takes part with those two and the other three after them
C29_Witness ==
  /\ sim.pc = "prepared"
  /\ sim.r.teams[1].isTaken
  /\ Len(sim.r.teams[1].roster) = 5
  /\ SubmittedLineup(sim.r, sim.r.teams[1]) = <<Player(2), Player(3)>>
  /\ 1 \in DOMAIN sim.tourneyTeams
  /\ sim.tourneyTeams[1] = <<Player(2), Player(3), Player(1), Player(4), Player(5)>>

\* C29: a taken team of 13 players that has submitted none takes part with
\* the first 11 of its roster
C29_WitnessLongRoster ==
  /\ sim.pc = "prepared"
  /\ Len(sim.r.teams[1].roster) = MaxRoster
  /\ SubmittedLineup(sim.r, sim.r.teams[1]) = <<>>
  /\ 1 \in DOMAIN sim.tourneyTeams
  /\ sim.tourneyTeams[1] = RosterOf(LINEUP_SIZE)

\* The step ends in a failure no handler catches
UnhandledFailure == \E i \in 1..Len(out') : out'[i].ev = "uncaughtException"

\* The admin of room id has sent end_auction_trigger in this step
AuctionEndedBy(id) ==
  /\ last'.ev = "end_auction_trigger"
  /\ last'.s \in Connections
  /\ getRoomId(last'.s) = id
  /\ rooms[id].adminSocketId = last'.s

\* C30: no event ends in an unhandled failure of its handler, whatever the
\* room state and the connection; an admin's end_auction_trigger stops the
\* timer, marks the auction inactive and emits open_squad_selection, and a
\* failure inside run_simulation is reported as simulation_error
C30_NoUnhandledFailure ==
  [][/\ ~UnhandledFailure
     /\ DOMAIN rooms \subseteq DOMAIN rooms'
     /\ \A id \in DOMAIN rooms :
          /\ AuctionEndedBy(id) =>
               /\ rooms'[id].timerInterval = 0
               /\ rooms'[id].intervals = {}
               /\ ~rooms'[id].isActive
               /\ Emits(id, "open_squad_selection")
          /\ SimulationRunBy(id) =>
               Emits(id, "tournament_results") \/ Emits(id, "simulation_error")]_vars

\* C30 for the steps in which no squad without a lineup is prepared
C30_NoUnhandledFailureWithLineups ==
  [][(\A id \in DOMAIN rooms : SimulationRunBy(id) => ~PrepareThrows(rooms[id])) =>
       /\ ~UnhandledFailure
       /\ DOMAIN rooms \subseteq DOMAIN rooms'
       /\ \A id \in DOMAIN rooms :
            /\ AuctionEndedBy(id) =>
                 /\ rooms'[id].timerInterval = 0
                 /\ rooms'[id].intervals = {}
                 /\ ~rooms'[id].isActive
                 /\ Emits(id, "open_squad_selection")
            /\ SimulationRunBy(id) =>
                 Emits(id, "tournament_results") \/ Emits(id, "simulation_error")]_vars

\* The budgets of the teams of room r, by bidding key
BudgetOf(r, k) == r.teams[FindTeam(r.teams, k)].budget

\* The keys of the teams of room r
KeysOf(r) == {r.teams[i].bidKey : i \in 1..Len(r.teams)}

\* C31: after start_auction with budgets that are not negative no budget is
\* ever negative, and no budget grows during the auction, whatever integer
\* amounts are bid and however timer expiries and finalize_sale events follow
C31_BudgetNeverNegativeNorGrows ==
  [][\A id \in DOMAIN rooms :
       /\ \A k \in KeysOf(rooms'[id]) : BudgetOf(rooms'[id], k) >= 0
       /\ last'.ev # "start_auction" =>
            \A k \in KeysOf(rooms[id]) :
              /\ k \in KeysOf(rooms'[id])
              /\ BudgetOf(rooms'[id], k) <= BudgetOf(rooms[id], k)]_vars

\* The step resolves a lot that has not been resolved before and that was
\* bid for no less than nothing
FirstSaleOfFairBid(id) ==
  /\ rooms[id].currentBid >= 0
  /\ nFinal[id][rooms[id].currentPlayer.name] = 0

\* C31 for the sales of a lot that is resolved for the first time at a
\* highest bid of zero or more; no other step changes a budget
C31_BudgetOfFirstSales ==
  [][\A id \in DOMAIN rooms :
       last'.ev # "start_auction" =>
         \A k \in KeysOf(rooms[id]) :
           /\ k \in KeysOf(rooms'[id])
           /\ BudgetOf(rooms'[id], k) # BudgetOf(rooms[id], k) =>
                /\ last'.ev \in {"finalize_sale", "tick"}
                /\ FirstSaleOfFairBid(id) =>
                     /\ BudgetOf(rooms[id], k) >= 0 => BudgetOf(rooms'[id], k) >= 0
                     /\ BudgetOf(rooms'[id], k) <= BudgetOf(rooms[id], k)]_vars

\* The roster entries of the teams of room r
Bought(r) == UNION {{r.teams[i].roster[j] : j \in 1..Len(r.teams[i].roster)} : i \in 1..Len(r.teams)}

\* C32: whenever a lot is current and has a highest bidder the highest bid
\* is at least the base price of the lot, and no lot is sold for less than
\* its base price
C32_BidAtLeastBasePrice ==
  \A id \in DOMAIN rooms :
    /\ (rooms[id].currentPlayer # NoPlayer /\ rooms[id].currentBidder # NULL) =>
         rooms[id].currentBid >= rooms[id].currentPlayer.basePrice
    /\ \A e \in Bought(rooms[id]) : e.price >= e.basePrice

\* C32 for the bids that follow the first: while a lot is current, a highest
\* bid that has reached the base price does not fall below it again, and a
\* lot whose highest bid is at least the base price is sold for no less
C32_BidStaysAboveBasePrice ==
  [][\A id \in DOMAIN rooms :
       LET r == rooms[id]
           q == rooms'[id]
       IN /\ (/\ r.currentPlayer # NoPlayer /\ r.currentBidder # NULL
              /\ r.currentBid >= r.currentPlayer.basePrice
              /\ q.currentPlayer.name = r.currentPlayer.name /\ q.currentBidder # NULL
              /\ q.starts = r.starts)
               => q.currentBid >= q.currentPlayer.basePrice
          /\ (r.currentPlayer # NoPlayer /\ r.currentBid >= r.currentPlayer.basePrice) =>
               \A e \in Bought(q) \ Bought(r) : e.price >= e.basePrice]_vars

\* C33: in every room state a durable identity is the durable owner of at
\* most one team of the room, however teams are claimed and reclaimed,
\* connections join, and reclaim requests are sent and decided
C33_OneTeamPerIdentity == \A id \in DOMAIN rooms : OneTeamEach(id)

\* C33 for the events other than the admin's decision: a claim, a reclaim, a
\* join and a reclaim request give no identity a second team
C33_ClaimsGiveNoSecondTeam ==
  [][\A id \in DOMAIN rooms :
       (OneTeamEach(id) /\ last'.ev \notin {"admin_reclaim_decision", "update_lobby_teams"}) =>
         \A i, j \in 1..Len(rooms'[id].teams) :
           (rooms'[id].teams[i].ownerPlayerId # NULL /\
            rooms'[id].teams[i].ownerPlayerId = rooms'[id].teams[j].ownerPlayerId) => i = j]_vars

\* What the auction keeps of the teams of room r: the list of their keys,
\* and the budget, roster, spend and player count of each
Holdings(r) ==
  [i \in 1..Len(r.teams) |->
     [bidKey |-> r.teams[i].bidKey, budget |-> r.teams[i].budget, roster |-> r.teams[i].roster,
      totalSpent |-> r.teams[i].totalSpent, totalPlayers |-> r.teams[i].totalPlayers]]

\* The events through which a lot is finalized
SaleEvents == {"finalize_sale", "tick"}

\* C34: while an auction is active the budget, roster, spend and player
\* count of a team change only when a lot that team won is finalized: no
\* other event of a member changes them or replaces the team list, and a
\* finalization changes at most the team of the highest bidder
C34_HoldingsChangeOnlyBySale ==
  [][\A id \in DOMAIN rooms :
       (rooms[id].isActive /\ last'.ev # "start_auction") =>
         /\ id \in DOMAIN rooms'
         /\ last'.ev \notin SaleEvents => Holdings(rooms'[id]) = Holdings(rooms[id])
         /\ (last'.ev = "finalize_sale" /\ rooms[id].adminSocketId # last'.s) =>
              Holdings(rooms'[id]) = Holdings(rooms[id])
         /\ last'.ev \in SaleEvents =>
              /\ Len(rooms'[id].teams) = Len(rooms[id].teams)
              /\ \A i \in 1..Len(rooms[id].teams) :
                   rooms[id].teams[i].bidKey # rooms[id].currentBidder =>
                     Holdings(rooms'[id])[i] = Holdings(rooms[id])[i]]_vars

\* C34 for the events other than update_lobby_teams
C34_HoldingsButForTeamLists ==
  [][\A id \in DOMAIN rooms :
       (rooms[id].isActive /\ last'.ev \notin {"start_auction", "update_lobby_teams"}) =>
         /\ id \in DOMAIN rooms'
         /\ last'.ev \notin SaleEvents => Holdings(rooms'[id]) = Holdings(rooms[id])
         /\ (last'.ev = "finalize_sale" /\ rooms[id].adminSocketId # last'.s) =>
              Holdings(rooms'[id]) = Holdings(rooms[id])
         /\ last'.ev \in SaleEvents =>
              /\ Len(rooms'[id].teams) = Len(rooms[id].teams)
              /\ \A i \in 1..Len(rooms[id].teams) :
                   rooms[id].teams[i].bidKey # rooms[id].currentBidder =>
                     Holdings(rooms'[id])[i] = Holdings(rooms[id])[i]]_vars

\* The current lot of the room is open: it has been put up and has no result yet
LotOpen(id) ==
  /\ id \in DOMAIN rooms
  /\ rooms[id].currentPlayer # NoPlayer
  /\ rooms[id].currentPlayer.status = NoStatus

Paused(id) == id \in DOMAIN rooms /\ rooms[id].timerPaused

EndedByAdmin(id) == Started(id) /\ ~rooms[id].isActive

====
